---- MODULE Spec2Model ----
(***************************************************************************)
(* Verification model of the winid RAG service.                            *)
(*                                                                         *)
(*   db/repo.js              the vector store: durable tables, the         *)
(*                           process-resident vectorCache (Index) and the  *)
(*                           isCacheLoaded flag (SpecStore)                *)
(*   server/src/rag/chain.js the retrieval and routing chain (SpecRag)     *)
(*   handleUpload + createLimiter                                          *)
(*                           the prose fan-out of one ingestion            *)
(*                           (SpecUpload)                                  *)
(*                                                                         *)
(* Similarities are integers in percent (0.35 is 35).  A vector is kept in *)
(* polar form: its length (number of components), its direction in degrees *)
(* and its magnitude class (0 = all-zero, 1 = unit, 2 = not unit).         *)
(***************************************************************************)
EXTENDS Integers, Sequences, FiniteSets, TLC

VARIABLES
  \* ---- db/repo.js and the MySQL tables behind it
  documents,      \* committed rows of table documents
  embeddings,     \* committed rows of table embeddings
  nextId,         \* AUTO_INCREMENT counter of documents
  tx,             \* per call: rows written by its open transaction
  connHeld,       \* calls that hold a pooled connection
  vectorCache,    \* repo.js:4
  isCacheLoaded,  \* repo.js:5
  pc,             \* per call: position inside the repo.js function it runs
  loc,            \* per call: the locals of that function
  nCalls,         \* calls of repo.js functions made so far: [insert, other]
  \* ---- handleUpload prose fan-out and createLimiter
  lq,             \* createLimiter: q
  active,         \* createLimiter: active
  ticks,          \* pending process.nextTick(run) callbacks
  task,           \* per chunk index: state of its limited task
  upl,            \* handleUpload: position / response
  inserted,       \* handleUpload: inserted
  \* ---- rag/chain.js runRag
  rpc,            \* position inside the chain
  rin,            \* the chain's input record as it flows through the steps
  rcalls,         \* network / store calls issued so far, in order
  rout,           \* value returned by runRag
  \* ---- handleUpload, all stages of one ingestion
  ing,            \* position, locals and effects of the handler
  \* ---- functions and handlers checked on their own
  chk,            \* chunk.js chunkTextTokens: arguments, locals, position
  sse,            \* readSSEToText: the stream, acc, position
  req,            \* handleQuery / handleQueryGet: request and response
  \* ---- db/repo.js insertDocAsset and insertDocTable
  docAssets       \* committed rows of tables doc_assets and doc_tables

storeVars  == <<documents, embeddings, nextId, tx, connHeld, vectorCache,
                isCacheLoaded, pc, loc, nCalls>>
uploadVars == <<lq, active, ticks, task, upl, inserted>>
ragVars    == <<rpc, rin, rcalls, rout>>
ingestVars == <<ing>>
unitVars   == <<chk, sse, req, docAssets>>
vars       == <<storeVars, uploadVars, ragVars, ingestVars, unitVars>>

(***************************************************************************)
(* Bounds of the model                                                     *)
(***************************************************************************)
NProcs     == 2     \* calls of repo.js functions in flight at a time
MaxCalls   == 3     \* calls of repo.js functions per behaviour
MaxInserts == 1     \* of which calls of insertDocumentWithEmbedding
MaxStored  == 1     \* fragments in the tables when the process starts
MaxChunks  == 9     \* chunks of one uploaded document
MaxIndex   == 3     \* Index entries when a question is asked
MaxQLen    == 2     \* characters (classes) of a question
MaxHits    == 4     \* Index entries when the statistics of the results are checked
MaxCtxDocs == 3     \* Index entries when the context is composed
MaxCache   == 3     \* Index entries when matchDocuments is checked alone
MaxTables  == 1     \* tables of one ingested document
MaxPictures == 1    \* pictures of one ingested document
MaxRows    == 9     \* rows of a table
MaxProse   == 2     \* chunks of one ingested document
MaxTokens  == 5     \* tokens of a text that is chunked
MaxWindow  == 3     \* largest maxTokens and overlap passed to chunkTextTokens
MaxLines   == 3     \* lines of a generation stream

(***************************************************************************)
(* Program constants                                                       *)
(***************************************************************************)
D               == 1024   \* repo.js:57
connectionLimit == 10     \* mysql.js pool
DefaultK        == 8      \* repo.js:104
DefaultThreshold == 70    \* repo.js:104 (0.7)
RETRIEVE_MIN    == 35     \* env.js:66 (0.35)
USE_AS_CTX_MIN  == 60     \* env.js:67 (0.60)
MIN_TOP3_AVG    == 55     \* env.js:68 (0.55)
TEXT_K          == 5      \* env.js:69
TABLE_K         == 10     \* env.js:70
IMAGE_K         == 4      \* env.js:71
LimiterCap      == 8      \* env.js:637 createLimiter(8)
MAX_TABLE_ROWS_EMB == 50  \* env.js:57
MAX_CAPTION_PAGES  == 10  \* env.js:58
QuestionMax        == 8000 \* part_004:22
HistoryMax         == 50  \* part_004:27

\* the slots of calls in flight; a new call takes the lowest free slot
Procs == 1..NProcs

MayStart(p) ==
  /\ nCalls.insert + nCalls.other < MaxCalls
  /\ pc[p] = "idle"
  /\ \A o \in Procs : o < p => pc[o] # "idle"

(***************************************************************************)
(* Helpers on sequences                                                    *)
(***************************************************************************)
Range(s) == {s[i] : i \in 1..Len(s)}

SeqsUpTo(S, n) == UNION {[1..m -> S] : m \in 0..n}

RECURSIVE SumSeq(_)
SumSeq(s) == IF s = <<>> THEN 0 ELSE Head(s) + SumSeq(Tail(s))

Take(s, n) == SubSeq(s, 1, IF n < Len(s) THEN n ELSE Len(s))

Min2(a, b) == IF a < b THEN a ELSE b

(***************************************************************************)
(* repo.js helpers                                                         *)
(***************************************************************************)
\* cos of an angle in degrees, in percent (Bhaskara's rational form, exact
\* at 0, 60 and 90 degrees); the model's stand-in for the component sum.
CosPct(x) ==
  LET a == IF x < 0 THEN -x ELSE x
  IN  IF a >= 90 THEN 0 ELSE ((32400 - 4 * a * a) * 100) \div (32400 + a * a)

\* repo.js:8-12.  Both magnitudes multiply the cosine; a zero vector gives 0.
dot(a, b) ==
  IF a.mag = 0 \/ b.mag = 0 THEN 0 ELSE a.mag * b.mag * CosPct(a.dir - b.dir)

\* variant of l2Normalize: the vector is returned as it came
l2NormalizeSkipped(v) == v

\* repo.js:14-26.  n = sqrt(sum) || 1: an all-zero vector has n = 0, which
\* becomes 1, and is returned as it is; any other vector becomes unit.
l2Normalize(v) == IF v.mag = 0 THEN v ELSE [v EXCEPT !.mag = 1]

\* The rows SELECT d.id, d.metadata, e.embedding FROM embeddings e JOIN
\* documents d ON d.id = e.document_id delivers: committed rows only.
RECURSIVE SortedIds(_)
SortedIds(S) ==
  IF S = {} THEN <<>>
  ELSE LET m == CHOOSE x \in S : \A y \in S : x <= y
       IN  <<m>> \o SortedIds(S \ {m})

JoinedIds == {e.document_id : e \in embeddings} \cap {d.id : d \in documents}

DocRow(i) == CHOOSE d \in documents : d.id = i
EmbRow(i) == CHOOSE e \in embeddings : e.document_id = i

\* repo.js:38-49: the result of the scan mapped to cache entries
LoadRows ==
  LET ids == SortedIds(JoinedIds)
  IN  [n \in 1..Len(ids) |->
         [id |-> ids[n], metadata |-> DocRow(ids[n]).metadata,
          embedding |-> EmbRow(ids[n]).embedding]]

(***************************************************************************)
(* matchDocuments, the synchronous part (repo.js:104-133)                  *)
(***************************************************************************)
NoSha == "null"

\* options of one call; typesGiven = FALSE stands for types = null
Opts(k, threshold, typesGiven, types, sha256) ==
  [k |-> k, threshold |-> threshold, typesGiven |-> typesGiven,
   types |-> types, sha256 |-> sha256]

\* variant of PassesFilter: the sha256 of the entry is not compared
PassesFilterNoSha(item, opts) ==
  (opts.typesGiven /\ opts.types # {}) => item.metadata.type \in opts.types

\* repo.js:114-117: the two filters; an empty types array filters nothing
PassesFilter(item, opts) ==
  /\ (opts.typesGiven /\ opts.types # {}) => item.metadata.type \in opts.types
  /\ opts.sha256 # NoSha => item.metadata.sha256 = opts.sha256

\* variant of Scored: an entry must be strictly above the threshold
RECURSIVE ScoredStrictlyAbove(_, _, _)
ScoredStrictlyAbove(cache, q, opts) ==
  IF cache = <<>> THEN <<>>
  ELSE LET item == Head(cache)
           sim  == dot(q, item.embedding)
           rest == ScoredStrictlyAbove(Tail(cache), q, opts)
       IN  IF PassesFilter(item, opts) /\ sim > opts.threshold
           THEN <<[id |-> item.id, metadata |-> item.metadata,
                   similarity |-> sim]>> \o rest
           ELSE rest

\* repo.js:109-129: scan of vectorCache in order
RECURSIVE Scored(_, _, _)
Scored(cache, q, opts) ==
  IF cache = <<>> THEN <<>>
  ELSE LET item == Head(cache)
           sim  == dot(q, item.embedding)
           rest == Scored(Tail(cache), q, opts)
       IN  IF PassesFilter(item, opts) /\ sim >= opts.threshold
           THEN <<[id |-> item.id, metadata |-> item.metadata,
                   similarity |-> sim]>> \o rest
           ELSE rest

\* repo.js:132: Array.prototype.sort with (a, b) => b.similarity - a.similarity
\* is a stable sort, descending
\* variant of InsertDesc: an entry goes in front of the entries of equal
\* similarity (a sort that is not stable)
RECURSIVE InsertDescBeforeEqual(_, _)
InsertDescBeforeEqual(s, x) ==
  IF s = <<>> THEN <<x>>
  ELSE IF Head(s).similarity > x.similarity
       THEN <<Head(s)>> \o InsertDescBeforeEqual(Tail(s), x)
       ELSE <<x>> \o s

RECURSIVE InsertDesc(_, _)
InsertDesc(s, x) ==
  IF s = <<>> THEN <<x>>
  ELSE IF Head(s).similarity >= x.similarity
       THEN <<Head(s)>> \o InsertDesc(Tail(s), x)
       ELSE <<x>> \o s

\* variant of SortDesc: the candidates are left in scan order
SortDescSkipped(s) == s

RECURSIVE SortDesc(_)
SortDesc(s) ==
  IF s = <<>> THEN <<>>
  ELSE InsertDesc(SortDesc(SubSeq(s, 1, Len(s) - 1)), s[Len(s)])

\* repo.js:131-133
TopK(cache, q, opts) == Take(SortDesc(Scored(cache, q, opts)), opts.k)

\* repo.js:135-146: content of the committed documents row, when one is found
AttachContent(topK) ==
  [n \in 1..Len(topK) |->
     [id |-> topK[n].id, metadata |-> topK[n].metadata,
      similarity |-> topK[n].similarity,
      content |-> IF \E d \in documents : d.id = topK[n].id
                  THEN DocRow(topK[n].id).content ELSE 0]]

(***************************************************************************)
(* The vector store as a state machine (db/repo.js)                        *)
(***************************************************************************)
NoVec  == [len |-> 0, dir |-> 0, mag |-> 0]
NoMeta == [type |-> "none", sha256 |-> "none"]
NoOpts == Opts(0, 0, FALSE, {}, NoSha)
NoTx   == [docs |-> {}, embs |-> {}]

Loc0 == [content |-> 0, metadata |-> NoMeta, embedding |-> NoVec,
         embNorm |-> NoVec, docId |-> 0,
         err |-> "", rows |-> <<>>, fromMatch |-> FALSE, q |-> NoVec,
         opts |-> NoOpts, topK |-> <<>>]

\* inputs of the calls made in SpecStore
StoreVecs    == {[len |-> D, dir |-> 0, mag |-> 2],
                 [len |-> D - 1, dir |-> 0, mag |-> 2]}
StoreMetas   == {[type |-> "pdf", sha256 |-> "a"]}
StoreContent == {100}
StoreQueries == {[len |-> D, dir |-> 0, mag |-> 2]}
StoreOpts    == {Opts(DefaultK, DefaultThreshold, FALSE, {}, NoSha)}

InsertPcs == {"getconn", "begin", "insdoc", "insemb", "commit", "committed",
              "rollback"}

\* variant of InsertCall: the length of the vector is not checked
InsertCallNoCheck(p, content, metadata, embedding) ==
  /\ MayStart(p)
  /\ nCalls.insert < MaxInserts
  /\ pc' = [pc EXCEPT ![p] = "getconn"]
  /\ loc' = [loc EXCEPT ![p] = [Loc0 EXCEPT !.content = content,
                                           !.metadata = metadata,
                                           !.embedding = embedding,
                                           !.embNorm = l2Normalize(embedding)]]
  /\ UNCHANGED <<documents, embeddings, nextId, tx, connHeld, vectorCache,
                 isCacheLoaded>>
  /\ nCalls' = [nCalls EXCEPT !.insert = @ + 1]

\* insertDocumentWithEmbedding, entry up to the first await (repo.js:56-64)
InsertCall(p, content, metadata, embedding) ==
  /\ MayStart(p)
  /\ nCalls.insert < MaxInserts
  /\ IF embedding.len # D
     THEN /\ pc' = [pc EXCEPT ![p] = "ins_failed"]
          /\ loc' = [loc EXCEPT ![p] = [Loc0 EXCEPT !.err = "Dimension mismatch"]]
     ELSE /\ pc' = [pc EXCEPT ![p] = "getconn"]
          /\ loc' = [loc EXCEPT ![p] = [Loc0 EXCEPT !.content = content,
                                                   !.metadata = metadata,
                                                   !.embedding = embedding,
                                                   !.embNorm = l2Normalize(embedding)]]
  /\ UNCHANGED <<documents, embeddings, nextId, tx, connHeld, vectorCache,
                 isCacheLoaded>>
  /\ nCalls' = [nCalls EXCEPT !.insert = @ + 1]

\* repo.js:64, pool.getConnection() resolves
GetConnection(p) ==
  /\ pc[p] = "getconn"
  /\ Cardinality(connHeld) < connectionLimit
  /\ connHeld' = connHeld \cup {p}
  /\ pc' = [pc EXCEPT ![p] = "begin"]
  /\ UNCHANGED <<documents, embeddings, nextId, tx, vectorCache, isCacheLoaded,
                 loc>>
  /\ UNCHANGED nCalls

\* repo.js:64, pool.getConnection() rejects: outside the try, nothing to undo
GetConnectionFail(p) ==
  /\ pc[p] = "getconn"
  /\ pc' = [pc EXCEPT ![p] = "ins_failed"]
  /\ loc' = [loc EXCEPT ![p].err = "getConnection"]
  /\ UNCHANGED <<documents, embeddings, nextId, tx, connHeld, vectorCache,
                 isCacheLoaded>>
  /\ UNCHANGED nCalls

\* repo.js:66
BeginTransaction(p) ==
  /\ pc[p] = "begin"
  /\ tx' = [tx EXCEPT ![p] = NoTx]
  /\ pc' = [pc EXCEPT ![p] = "insdoc"]
  /\ UNCHANGED <<documents, embeddings, nextId, connHeld, vectorCache,
                 isCacheLoaded, loc>>
  /\ UNCHANGED nCalls

\* repo.js:68-72: the row is written inside the transaction
InsertDocumentsRow(p) ==
  /\ pc[p] = "insdoc"
  /\ tx' = [tx EXCEPT ![p].docs = @ \cup {[id |-> nextId,
                                           content |-> loc[p].content,
                                           metadata |-> loc[p].metadata]}]
  /\ loc' = [loc EXCEPT ![p].docId = nextId]
  /\ nextId' = nextId + 1
  /\ pc' = [pc EXCEPT ![p] = "insemb"]
  /\ UNCHANGED <<documents, embeddings, connHeld, vectorCache, isCacheLoaded>>
  /\ UNCHANGED nCalls

\* variant of InsertEmbeddingsRow: the entry is pushed to vectorCache as soon
\* as the embeddings row is written, before the commit
InsertEmbeddingsRowAndPush(p) ==
  /\ pc[p] = "insemb"
  /\ tx' = [tx EXCEPT ![p].embs = @ \cup {[document_id |-> loc[p].docId,
                                           embedding |-> loc[p].embNorm]}]
  /\ vectorCache' = Append(vectorCache, [id |-> loc[p].docId,
                                         metadata |-> loc[p].metadata,
                                         embedding |-> loc[p].embNorm])
  /\ pc' = [pc EXCEPT ![p] = "commit"]
  /\ UNCHANGED <<documents, embeddings, nextId, connHeld, isCacheLoaded, loc>>
  /\ UNCHANGED nCalls

\* repo.js:74-77
InsertEmbeddingsRow(p) ==
  /\ pc[p] = "insemb"
  /\ tx' = [tx EXCEPT ![p].embs = @ \cup {[document_id |-> loc[p].docId,
                                           embedding |-> loc[p].embNorm]}]
  /\ pc' = [pc EXCEPT ![p] = "commit"]
  /\ UNCHANGED <<documents, embeddings, nextId, connHeld, vectorCache,
                 isCacheLoaded, loc>>
  /\ UNCHANGED nCalls

\* repo.js:79: the server makes the rows of the transaction durable
Commit(p) ==
  /\ pc[p] = "commit"
  /\ documents' = documents \cup tx[p].docs
  /\ embeddings' = embeddings \cup tx[p].embs
  /\ tx' = [tx EXCEPT ![p] = NoTx]
  /\ pc' = [pc EXCEPT ![p] = "committed"]
  /\ UNCHANGED <<nextId, connHeld, vectorCache, isCacheLoaded, loc>>
  /\ UNCHANGED nCalls

\* repo.js:81-87: the entry pushed once the commit has resolved
CachePush(p, cache) ==
  IF isCacheLoaded
  THEN Append(cache, [id |-> loc[p].docId, metadata |-> loc[p].metadata,
                      embedding |-> loc[p].embNorm])
  ELSE cache

\* repo.js:81-89 and the finally of repo.js:94-96
AfterCommit(p) ==
  /\ pc[p] = "committed"
  /\ vectorCache' = CachePush(p, vectorCache)
  /\ connHeld' = connHeld \ {p}
  /\ pc' = [pc EXCEPT ![p] = "ins_done"]
  /\ UNCHANGED <<documents, embeddings, nextId, tx, isCacheLoaded, loc>>
  /\ UNCHANGED nCalls

\* repo.js:66-79: beginTransaction, either execute or commit rejects
StatementFail(p) ==
  /\ pc[p] \in {"begin", "insdoc", "insemb", "commit"}
  /\ loc' = [loc EXCEPT ![p].err = pc[p]]
  /\ pc' = [pc EXCEPT ![p] = "rollback"]
  /\ UNCHANGED <<documents, embeddings, nextId, tx, connHeld, vectorCache,
                 isCacheLoaded>>
  /\ UNCHANGED nCalls

\* variant of Rollback: the statements ran outside a transaction, so the rows
\* already written stay
RollbackKeepsRows(p) ==
  /\ pc[p] = "rollback"
  /\ documents' = documents \cup tx[p].docs
  /\ embeddings' = embeddings \cup tx[p].embs
  /\ tx' = [tx EXCEPT ![p] = NoTx]
  /\ connHeld' = connHeld \ {p}
  /\ \E e \in {loc[p].err, "rollback"} : loc' = [loc EXCEPT ![p].err = e]
  /\ pc' = [pc EXCEPT ![p] = "ins_failed"]
  /\ UNCHANGED <<nextId, vectorCache, isCacheLoaded>>
  /\ UNCHANGED nCalls

\* repo.js:90-96: rollback, rethrow, release.  Whether conn.rollback()
\* resolves or rejects only changes the error thrown: the rows of the
\* transaction never become durable.
Rollback(p) ==
  /\ pc[p] = "rollback"
  /\ tx' = [tx EXCEPT ![p] = NoTx]
  /\ connHeld' = connHeld \ {p}
  /\ \E e \in {loc[p].err, "rollback"} : loc' = [loc EXCEPT ![p].err = e]
  /\ pc' = [pc EXCEPT ![p] = "ins_failed"]
  /\ UNCHANGED <<documents, embeddings, nextId, vectorCache, isCacheLoaded>>
  /\ UNCHANGED nCalls

\* loadCache without the test of line 35: every call scans
LoadCallAlwaysScans(p) ==
  /\ MayStart(p)
  /\ pc' = [pc EXCEPT ![p] = "load_query"]
  /\ loc' = [loc EXCEPT ![p] = Loc0]
  /\ UNCHANGED <<documents, embeddings, nextId, tx, connHeld, vectorCache,
                 isCacheLoaded>>
  /\ nCalls' = [nCalls EXCEPT !.other = @ + 1]

\* loadCache called directly (repo.js:34-35)
LoadCall(p) ==
  /\ MayStart(p)
  /\ pc' = [pc EXCEPT ![p] = IF isCacheLoaded THEN "load_done" ELSE "load_query"]
  /\ loc' = [loc EXCEPT ![p] = Loc0]
  /\ UNCHANGED <<documents, embeddings, nextId, tx, connHeld, vectorCache,
                 isCacheLoaded>>
  /\ nCalls' = [nCalls EXCEPT !.other = @ + 1]

\* matchDocuments, entry (repo.js:101-102)
MatchCall(p, queryEmbedding, options) ==
  /\ MayStart(p)
  /\ pc' = [pc EXCEPT ![p] = IF isCacheLoaded THEN "m_score" ELSE "load_query"]
  /\ loc' = [loc EXCEPT ![p] = [Loc0 EXCEPT !.fromMatch = TRUE,
                                           !.q = queryEmbedding,
                                           !.opts = options]]
  /\ UNCHANGED <<documents, embeddings, nextId, tx, connHeld, vectorCache,
                 isCacheLoaded>>
  /\ nCalls' = [nCalls EXCEPT !.other = @ + 1]

\* repo.js:38-42: the server runs the scan and the rows travel back
LoadQuery(p) ==
  /\ pc[p] = "load_query"
  /\ loc' = [loc EXCEPT ![p].rows = LoadRows]
  /\ pc' = [pc EXCEPT ![p] = "load_rows"]
  /\ UNCHANGED <<documents, embeddings, nextId, tx, connHeld, vectorCache,
                 isCacheLoaded>>
  /\ UNCHANGED nCalls

\* repo.js:38: pool.query rejects; isCacheLoaded stays false
LoadQueryFail(p) ==
  /\ pc[p] = "load_query"
  /\ loc' = [loc EXCEPT ![p].err = "load"]
  /\ pc' = [pc EXCEPT ![p] = IF loc[p].fromMatch THEN "m_failed" ELSE "load_failed"]
  /\ UNCHANGED <<documents, embeddings, nextId, tx, connHeld, vectorCache,
                 isCacheLoaded>>
  /\ UNCHANGED nCalls

\* repo.js:44-51: the continuation after the await
LoadAssign(p) ==
  /\ pc[p] = "load_rows"
  /\ vectorCache' = loc[p].rows
  /\ isCacheLoaded' = TRUE
  /\ pc' = [pc EXCEPT ![p] = IF loc[p].fromMatch THEN "m_score" ELSE "load_done"]
  /\ UNCHANGED <<documents, embeddings, nextId, tx, connHeld, loc>>
  /\ UNCHANGED nCalls

\* repo.js:104-135: normalise the query, scan, sort, slice
MatchScore(p) ==
  /\ pc[p] = "m_score"
  /\ IF loc[p].q.len = 0
     THEN /\ loc' = [loc EXCEPT ![p].err = "l2Normalize: invalid vector"]
          /\ pc' = [pc EXCEPT ![p] = "m_failed"]
     ELSE LET topK == TopK(vectorCache, l2Normalize(loc[p].q), loc[p].opts)
          IN  /\ loc' = [loc EXCEPT ![p].topK = topK]
              /\ pc' = [pc EXCEPT ![p] = IF Len(topK) > 0 THEN "m_fetch"
                                                           ELSE "m_done"]
  /\ UNCHANGED <<documents, embeddings, nextId, tx, connHeld, vectorCache,
                 isCacheLoaded>>
  /\ UNCHANGED nCalls

\* repo.js:137-148: the content query resolves
MatchFetch(p) ==
  /\ pc[p] = "m_fetch"
  /\ loc' = [loc EXCEPT ![p].topK = AttachContent(loc[p].topK)]
  /\ pc' = [pc EXCEPT ![p] = "m_done"]
  /\ UNCHANGED <<documents, embeddings, nextId, tx, connHeld, vectorCache,
                 isCacheLoaded>>
  /\ UNCHANGED nCalls

\* repo.js:137: the content query rejects
MatchFetchFail(p) ==
  /\ pc[p] = "m_fetch"
  /\ loc' = [loc EXCEPT ![p].err = "content", ![p].topK = <<>>]
  /\ pc' = [pc EXCEPT ![p] = "m_failed"]
  /\ UNCHANGED <<documents, embeddings, nextId, tx, connHeld, vectorCache,
                 isCacheLoaded>>
  /\ UNCHANGED nCalls



FinalPcs == {"ins_done", "ins_failed", "load_done", "load_failed", "m_done",
             "m_failed", "a_done", "a_failed", "t_done", "t_failed"}

\* the caller has taken the result; its slot is free again
Return(p) ==
  /\ pc[p] \in FinalPcs
  /\ pc' = [pc EXCEPT ![p] = "idle"]
  /\ loc' = [loc EXCEPT ![p] = Loc0]
  /\ UNCHANGED <<documents, embeddings, nextId, tx, connHeld, vectorCache,
                 isCacheLoaded, nCalls>>

\* the fragment an earlier run of the process left in the tables
StoredMeta == [type |-> "pdf", sha256 |-> "a"]
StoredVec  == [len |-> D, dir |-> 0, mag |-> 1]
StoredDocs(n) == {[id |-> i, content |-> 100, metadata |-> StoredMeta] : i \in 1..n}
StoredEmbs(n) == {[document_id |-> i, embedding |-> StoredVec] : i \in 1..n}

\* the process has just started: the tables hold n fragments, nothing is
\* cached (repo.js:4-5)
StoreInit0(n) ==
  /\ documents = StoredDocs(n)
  /\ embeddings = StoredEmbs(n)
  /\ nextId = n + 1
  /\ tx = [p \in Procs |-> NoTx]
  /\ connHeld = {}
  /\ vectorCache = <<>>
  /\ isCacheLoaded = FALSE
  /\ pc = [p \in Procs |-> "idle"]
  /\ loc = [p \in Procs |-> Loc0]
  /\ nCalls = [insert |-> 0, other |-> 0]

\* no upload has been received
NoIngest == [stage |-> "off"]

\* chunkTextTokens, readSSEToText and the query routes are not running
NoUnit == [pc |-> "off"]
\* tables doc_assets and doc_tables are empty
NoAssetRows == [assets |-> <<>>, tables |-> <<>>]

UnitIdle ==
  chk = NoUnit /\ sse = NoUnit /\ req = NoUnit /\ docAssets = NoAssetRows

UploadIdle ==
  /\ ing = NoIngest
  /\ UnitIdle
  /\ lq = <<>>
  /\ active = 0
  /\ ticks = 0
  /\ task = <<>>
  /\ upl = "none"
  /\ inserted = 0

RagIdle ==
  /\ rpc = "none"
  /\ rin = <<>>
  /\ rcalls = <<>>
  /\ rout = <<>>

InitStore == (\E n \in 0..MaxStored : StoreInit0(n)) /\ UploadIdle /\ RagIdle

\* a step of the store leaves the other components alone
StoreOnly(A) == A /\ UNCHANGED <<uploadVars, ragVars, ingestVars, unitVars>>

NextStore ==
  \/ \E p \in Procs, c \in StoreContent, m \in StoreMetas, v \in StoreVecs :
       StoreOnly(InsertCall(p, c, m, v))
  \/ \E p \in Procs : StoreOnly(GetConnection(p))
  \/ \E p \in Procs : StoreOnly(GetConnectionFail(p))
  \/ \E p \in Procs : StoreOnly(BeginTransaction(p))
  \/ \E p \in Procs : StoreOnly(InsertDocumentsRow(p))
  \/ \E p \in Procs : StoreOnly(InsertEmbeddingsRow(p))
  \/ \E p \in Procs : StoreOnly(Commit(p))
  \/ \E p \in Procs : StoreOnly(AfterCommit(p))
  \/ \E p \in Procs : StoreOnly(StatementFail(p))
  \/ \E p \in Procs : StoreOnly(Rollback(p))
  \/ \E p \in Procs : StoreOnly(LoadCall(p))
  \/ \E p \in Procs, q \in StoreQueries, o \in StoreOpts :
       StoreOnly(MatchCall(p, q, o))
  \/ \E p \in Procs : StoreOnly(LoadQuery(p))
  \/ \E p \in Procs : StoreOnly(LoadQueryFail(p))
  \/ \E p \in Procs : StoreOnly(LoadAssign(p))
  \/ \E p \in Procs : StoreOnly(MatchScore(p))
  \/ \E p \in Procs : StoreOnly(MatchFetch(p))
  \/ \E p \in Procs : StoreOnly(MatchFetchFail(p))
  \/ \E p \in Procs : StoreOnly(Return(p))

SpecStore == InitStore /\ [][NextStore]_vars

(***************************************************************************)
(* Claims about the vector store (SpecStore)                               *)
(***************************************************************************)
CacheIds == {vectorCache[i].id : i \in 1..Len(vectorCache)}
TxIds(p) == {d.id : d \in tx[p].docs} \cup {e.document_id : e \in tx[p].embs}

\* the insert of p has got past the dimension check and has not returned
InInsert(p) == pc[p] \in InsertPcs

\* a step in which the insert of p fails, or ends its failure handling
FailStepOf(p) ==
  /\ InInsert(p)
  /\ pc'[p] # pc[p]
  /\ pc'[p] \in {"rollback", "ins_failed"}

\* nothing of a failed insert is left: its rows are not durable, not pending
\* in its transaction and not in the Index; the error reaches the caller
FailedInsertLeftNothing(p) ==
  (pc[p] = "ins_failed" /\ loc[p].err # "Dimension mismatch") =>
     /\ tx[p] = NoTx
     /\ p \notin connHeld
     /\ loc[p].err # ""
     /\ loc[p].docId # 0 =>
          /\ loc[p].docId \notin {d.id : d \in documents}
          /\ loc[p].docId \notin {e.document_id : e \in embeddings}
          /\ loc[p].docId \notin CacheIds

\* C1: an insert that fails after the dimension check (getConnection, begin,
\* either INSERT or commit) is rolled back and raises its error; the failing
\* step and the rollback change neither the committed rows nor vectorCache,
\* so a full reload (one entry per joined id) has the size it had before,
\* and no row of the failed insert is ever durable or in vectorCache.
C1_FailedInsertRollsBack ==
  [][\A p \in Procs :
       /\ FailedInsertLeftNothing(p)'
       /\ FailStepOf(p) =>
            /\ documents' = documents
            /\ embeddings' = embeddings
            /\ vectorCache' = vectorCache
            /\ Cardinality(JoinedIds') = Cardinality(JoinedIds)]_vars

\* an insert failed at commit, after both rows were written, while the cache
\* was loaded and the store held another fragment
C1_Witness ==
  \E p \in Procs :
    /\ pc[p] = "ins_failed"
    /\ loc[p].err = "commit"
    /\ loc[p].docId # 0
    /\ isCacheLoaded
    /\ Len(vectorCache) > 0

\* every vector that got past the entry of insertDocumentWithEmbedding
AcceptedVecs ==
  {loc[p].embNorm : p \in {r \in Procs : InInsert(r)}}
    \cup {e.embedding : e \in embeddings}
    \cup UNION {{e.embedding : e \in tx[p].embs} : p \in Procs}
    \cup {vectorCache[i].embedding : i \in 1..Len(vectorCache)}

\* C2: a vector whose length is not D = 1024 is rejected at entry: no vector
\* of another length is ever past the check, in a transaction, committed or
\* in vectorCache, and the rejecting call changes no table, takes no
\* connection and writes no row.
C2_DimensionMismatchRejected ==
  /\ [](\A v \in AcceptedVecs : v.len = D)
  /\ [](\A p \in Procs : (pc[p] = "ins_failed" /\ loc[p].err = "Dimension mismatch")
          => (p \notin connHeld /\ tx[p] = NoTx /\ loc[p].docId = 0))
  /\ [][\A p \in Procs :
          (pc[p] = "idle" /\ pc'[p] = "ins_failed") =>
             /\ documents' = documents
             /\ embeddings' = embeddings
             /\ nextId' = nextId
             /\ tx' = tx
             /\ connHeld' = connHeld
             /\ vectorCache' = vectorCache]_vars

\* a 1023-component vector was rejected while the store held a fragment
C2_Witness ==
  \E p \in Procs :
    /\ pc[p] = "ins_failed"
    /\ loc[p].err = "Dimension mismatch"
    /\ documents # {}
    /\ Len(vectorCache) > 0

\* C4: every entry of vectorCache, and every result matchDocuments holds or
\* returns, has an id whose documents row and embeddings row are both
\* committed, and is no row of an open transaction.
C4_IndexOnlyCommitted ==
  /\ CacheIds \subseteq JoinedIds
  /\ \A p \in Procs : CacheIds \cap TxIds(p) = {}
  /\ \A p \in Procs :
       \A n \in 1..Len(loc[p].topK) :
         /\ loc[p].topK[n].id \in JoinedIds
         /\ \A r \in Procs : loc[p].topK[n].id \notin TxIds(r)

\* a search returned a fragment while another insert had written both of
\* its rows and not committed them
C4_Witness ==
  \E p, r \in Procs :
    /\ pc[p] = "m_done"
    /\ Len(loc[p].topK) > 0
    /\ pc[r] = "commit"
    /\ tx[r].docs # {} /\ tx[r].embs # {}

\* C5 as claimed: once isCacheLoaded is true it stays true and vectorCache
\* only grows at its end, every entry keeping its position.
C5_AppendOnlyOnceLoaded ==
  [][isCacheLoaded =>
       /\ isCacheLoaded'
       /\ Len(vectorCache') >= Len(vectorCache)
       /\ SubSeq(vectorCache', 1, Len(vectorCache)) = vectorCache]_vars

\* every call of SpecStore has settled or has not started
AllCallsFinished == \A p \in Procs : pc[p] \in FinalPcs \cup {"idle"}

\* C27 as claimed: once every insert, load and search has finished and
\* isCacheLoaded is true, vectorCache holds exactly one entry for every
\* committed fragment id, whatever the interleaving was (an insert that
\* commits while a load is in flight, two loads that overlap).
C27_IndexCompleteWhenQuiet ==
  (AllCallsFinished /\ isCacheLoaded)
    => /\ CacheIds = JoinedIds
       /\ Len(vectorCache) = Cardinality(JoinedIds)

(***************************************************************************)
(* handleUpload: the prose fan-out (env.js:619-694) over createLimiter     *)
(* (unnamed/part_003:107-134).  A chunk's insert is one step here:         *)
(* SpecStore has the steps of insertDocumentWithEmbedding.                 *)
(***************************************************************************)
ChunkMeta    == [type |-> "pdf", sha256 |-> "a"]
ChunkVec     == [len |-> D, dir |-> 0, mag |-> 2]
ChunkContent == 100

\* createLimiter: run (part_003:110-126) on the limiter state
\* st = [active, q, task]
run(st) ==
  IF st.active >= LimiterCap \/ Len(st.q) = 0
  THEN st
  ELSE [active |-> st.active + 1,
        q      |-> Tail(st.q),
        task   |-> [st.task EXCEPT ![Head(st.q)] = "running"]]

\* env.js:619-681: the text is chunked into n chunks, the batch embedding
\* resolves and chunks.map hands every chunk to limit(): q.push and
\* process.nextTick(run) (part_003:128-132)
FanOut(n) ==
  /\ upl = "none"
  /\ lq' = [i \in 1..n |-> i]
  /\ ticks' = n
  /\ task' = [i \in 1..n |-> "queued"]
  /\ upl' = IF n = 0 THEN "ok" ELSE "waiting"
  /\ UNCHANGED <<active, inserted, storeVars>>

\* env.js:631-635: the batch embedding fails or has the wrong size; the catch
\* of env.js:690-693 answers 500
EmbedBatchFail ==
  /\ upl = "none"
  /\ upl' = "failed"
  /\ UNCHANGED <<lq, active, ticks, task, inserted, storeVars>>

\* one process.nextTick(run) callback
RunTick ==
  /\ ticks > 0
  /\ ticks' = ticks - 1
  /\ LET st == run([active |-> active, q |-> lq, task |-> task])
     IN  /\ active' = st.active
         /\ lq' = st.q
         /\ task' = st.task
  /\ UNCHANGED <<upl, inserted, storeVars>>

\* the task of chunk i resolves: insertDocumentWithEmbedding committed both
\* rows and pushed the entry (repo.js:56-90), inserted++ (env.js:678), then
\* the limiter's fulfilment handler (part_003:117-121); Promise.all resolves
\* with the last task and res.json answers (env.js:683-690)
TaskResolve(i) ==
  /\ ticks = 0
  /\ i \in DOMAIN task
  /\ task[i] = "running"
  /\ documents' = documents \cup
       {[id |-> nextId, content |-> ChunkContent, metadata |-> ChunkMeta]}
  /\ embeddings' = embeddings \cup
       {[document_id |-> nextId, embedding |-> l2Normalize(ChunkVec)]}
  /\ nextId' = nextId + 1
  /\ vectorCache' = IF isCacheLoaded
                    THEN Append(vectorCache,
                                [id |-> nextId, metadata |-> ChunkMeta,
                                 embedding |-> l2Normalize(ChunkVec)])
                    ELSE vectorCache
  /\ inserted' = inserted + 1
  /\ LET st == run([active |-> active - 1, q |-> lq,
                    task |-> [task EXCEPT ![i] = "resolved"]])
     IN  /\ active' = st.active
         /\ lq' = st.q
         /\ task' = st.task
         /\ upl' = IF upl = "waiting" /\ \A j \in DOMAIN task : st.task[j] = "resolved"
                   THEN "ok" ELSE upl
  /\ UNCHANGED <<ticks, tx, connHeld, isCacheLoaded, pc, loc, nCalls>>

\* variant of TaskReject: the rejection handler hands the error on and does
\* nothing else
TaskRejectNoRun(i) ==
  /\ ticks = 0
  /\ i \in DOMAIN task
  /\ task[i] = "running"
  /\ task' = [task EXCEPT ![i] = "rejected"]
  /\ upl' = IF upl = "waiting" THEN "failed" ELSE upl
  /\ UNCHANGED <<lq, active, ticks, inserted, storeVars>>

\* the task of chunk i rejects: the vector is no array (env.js:643-645) or
\* insertDocumentWithEmbedding threw and left nothing behind; the limiter's
\* rejection handler runs (part_003:122-126); the first rejection rejects
\* Promise.all and the catch answers 500 (env.js:690-693)
TaskReject(i) ==
  /\ ticks = 0
  /\ i \in DOMAIN task
  /\ task[i] = "running"
  /\ LET st == run([active |-> active - 1, q |-> lq,
                    task |-> [task EXCEPT ![i] = "rejected"]])
     IN  /\ active' = st.active
         /\ lq' = st.q
         /\ task' = st.task
  /\ upl' = IF upl = "waiting" THEN "failed" ELSE upl
  /\ UNCHANGED <<ticks, inserted, storeVars>>

\* the process serves uploads with an empty store; the cache is loaded or not
InitUpload ==
  /\ StoreInit0(0)
  /\ UploadIdle
  /\ RagIdle

\* loadCache ran before the upload on the empty store (repo.js:34-52)
UploadLoadCache ==
  /\ upl = "none"
  /\ ~isCacheLoaded
  /\ isCacheLoaded' = TRUE
  /\ vectorCache' = LoadRows
  /\ UNCHANGED <<documents, embeddings, nextId, tx, connHeld, pc, loc, nCalls,
                 uploadVars>>

UploadOnly(A) == A /\ UNCHANGED <<ragVars, ingestVars, unitVars>>

NextUpload ==
  \/ UploadOnly(UploadLoadCache)
  \/ \E n \in 0..MaxChunks : UploadOnly(FanOut(n))
  \/ UploadOnly(EmbedBatchFail)
  \/ UploadOnly(RunTick)
  \/ \E i \in 1..MaxChunks : UploadOnly(TaskResolve(i))
  \/ \E i \in 1..MaxChunks : UploadOnly(TaskReject(i))

SpecUpload == InitUpload /\ [][NextUpload]_vars

(***************************************************************************)
(* Claims about one ingestion (SpecUpload)                                 *)
(***************************************************************************)
SomeRejected == \E j \in DOMAIN task : task[j] = "rejected"

\* C3 as claimed: from the step in which a task of the fan-out rejects, no
\* task that is still queued is started, the upload is answered as failed, and what was
\* committed stays in the tables and in vectorCache.
C3_FailureAbortsRemaining ==
  [][/\ SomeRejected' =>
          \A i \in DOMAIN task : task[i] = "queued" => task'[i] = "queued"
     /\ SomeRejected' => upl' = "failed"
     /\ documents \subseteq documents'
     /\ embeddings \subseteq embeddings'
     /\ Len(vectorCache') >= Len(vectorCache)
     /\ SubSeq(vectorCache', 1, Len(vectorCache)) = vectorCache]_vars

\* the event loop runs every pending process.nextTick callback
TickStep == UploadOnly(RunTick)

\* a task that was started settles
SettleStep ==
  \E i \in 1..MaxChunks :
    UploadOnly(TaskResolve(i)) \/ UploadOnly(TaskReject(i))

\* SpecUpload with the scheduling of the event loop: nextTick callbacks are
\* run, and every started task settles
SpecUploadLive ==
  InitUpload /\ [][NextUpload]_vars /\ WF_vars(TickStep) /\ WF_vars(SettleStep)

AllSettled == \A i \in DOMAIN task : task[i] \in {"resolved", "rejected"}

\* C29: provided every started task settles, every task handed to the
\* limiter is eventually started and settled, also when more tasks than the
\* cap are handed over at once and when tasks reject; the queue is then
\* empty and active is back at 0.
C29_LimiterDrains ==
  (Len(task) > 0) ~> (AllSettled /\ Len(lq) = 0 /\ active = 0 /\ ticks = 0)

C29_Witness ==
  /\ Len(task) > LimiterCap
  /\ AllSettled
  /\ SomeRejected
  /\ \E i \in DOMAIN task : task[i] = "resolved"
  /\ Len(lq) = 0
  /\ active = 0

(***************************************************************************)
(* rag/chain.js: the steps of runRag as functions                          *)
(*                                                                         *)
(* A question is a sequence of character classes:                          *)
(*   "s" white space, "k" one of the keywords of smalltalkRe, "p" one of   *)
(*   ! ? . and the ellipsis, "t" one of the phrases of tableLikeRe,        *)
(*   "o" any other text.                                                   *)
(* A content is the number of characters it has after trim().              *)
(***************************************************************************)
QChars == {"s", "k", "p", "t", "o"}

\* String.prototype.trim
RECURSIVE TrimLeft(_)
TrimLeft(q) ==
  IF q # <<>> /\ Head(q) = "s" THEN TrimLeft(Tail(q)) ELSE q

RECURSIVE TrimRight(_)
TrimRight(q) ==
  IF q # <<>> /\ q[Len(q)] = "s" THEN TrimRight(SubSeq(q, 1, Len(q) - 1)) ELSE q

Trim(q) == TrimRight(TrimLeft(q))

\* prompts.js:85-86: ^(?:\s*)(keyword)(?:[\s!?.…]*)$
smalltalkRe(q) ==
  \E i \in 1..Len(q) :
    /\ \A j \in 1..(i - 1) : q[j] = "s"
    /\ q[i] = "k"
    /\ \A j \in (i + 1)..Len(q) : q[j] \in {"s", "p"}

\* prompts.js:88-89: one of the table phrases occurs somewhere
tableLikeRe(q) == \E i \in 1..Len(q) : q[i] = "t"

TextTypes == {"pdf", "text", "office", "hwpx", "hwp"}

\* chain.js:38-59: the three calls of matchDocuments, in this order, their
\* results concatenated; a doc_sha of null leaves sha256 at its default
TextMatches(cache, qVec, match_count, doc_sha) ==
  AttachContent(TopK(cache, l2Normalize(qVec),
                     Opts(IF match_count = 0 THEN TEXT_K ELSE match_count,
                          RETRIEVE_MIN, TRUE, TextTypes, doc_sha)))

TableMatches(cache, qVec, doc_sha) ==
  AttachContent(TopK(cache, l2Normalize(qVec),
                     Opts(TABLE_K, RETRIEVE_MIN, TRUE, {"table_row"},
                          doc_sha)))

ImageMatches(cache, qVec, doc_sha) ==
  AttachContent(TopK(cache, l2Normalize(qVec),
                     Opts(IMAGE_K, RETRIEVE_MIN, TRUE, {"image_caption"},
                          doc_sha)))

Matches(cache, qVec, match_count, doc_sha) ==
  TextMatches(cache, qVec, match_count, doc_sha)
    \o TableMatches(cache, qVec, doc_sha)
    \o ImageMatches(cache, qVec, doc_sha)

Sims(matches) == [n \in 1..Len(matches) |-> matches[n].similarity]

\* chain.js:57-58: Math.max(...sims), 0 for no result
RECURSIVE MaxSeq(_)
MaxSeq(s) ==
  IF s = <<>> THEN 0
  ELSE LET m == MaxSeq(Tail(s)) IN IF Len(s) = 1 \/ Head(s) > m THEN Head(s) ELSE m

\* [...sims].sort((a, b) => b - a)
RECURSIVE InsertNumDesc(_, _)
InsertNumDesc(s, x) ==
  IF s = <<>> THEN <<x>>
  ELSE IF Head(s) >= x THEN <<Head(s)>> \o InsertNumDesc(Tail(s), x)
       ELSE <<x>> \o s

RECURSIVE SortNumDesc(_)
SortNumDesc(s) ==
  IF s = <<>> THEN <<>>
  ELSE InsertNumDesc(SortNumDesc(SubSeq(s, 1, Len(s) - 1)), s[Len(s)])

\* a quotient num / den kept exact
Avg(num, den) == [num |-> num, den |-> den]
AvgGE(a, c) == a.num >= c * a.den

\* variant of top3Avg: the sum of the first three is always divided by 3
top3AvgOverThree(sims) ==
  LET top3 == Take(SortNumDesc(sims), 3)
  IN  IF Len(top3) > 0 THEN Avg(SumSeq(top3), 3) ELSE Avg(0, 1)

\* chain.js:69-72 (and vector.service.js:59-64)
top3Avg(sims) ==
  LET top3 == Take(SortNumDesc(sims), 3)
  IN  IF Len(top3) > 0 THEN Avg(SumSeq(top3), Len(top3)) ELSE Avg(0, 1)

\* chain.js:79-105: the pieces of the context (lengths) and the sources
MAX_CTX    == 4000
LongPiece  == 1600
KeptEnds   == 800

\* chain.js:89: slice(0, 800) + "\n...\n" + slice(-800)
Shorten(t) == IF t > LongPiece THEN KeptEnds + 5 + KeptEnds ELSE t

RECURSIVE ContextFrom(_, _)
ContextFrom(matches, length) ==
  IF matches = <<>> THEN <<>>
  ELSE LET m == Head(matches)
           t == Shorten(m.content)
       IN  IF m.content = 0 THEN ContextFrom(Tail(matches), length)
           ELSE IF length + t > MAX_CTX THEN <<>>
           ELSE <<[t |-> t, similarity |-> m.similarity,
                   type |-> m.metadata.type]>>
                \o ContextFrom(Tail(matches), length + t)

\* the context string: the lengths of the documents it holds, <<>> for ""
ContextOf(matches) ==
  LET c == ContextFrom(matches, 0) IN [n \in 1..Len(c) |-> c[n].t]

SourcesOf(matches) ==
  LET c == ContextFrom(matches, 0)
  IN  [n \in 1..Len(c) |-> [similarity |-> c[n].similarity, type |-> c[n].type]]

(***************************************************************************)
(* runRag as a state machine (chain.js:200-212): embedQuestion,            *)
(* retrieveDocs, buildContext, autoBranch, one question at a time          *)
(***************************************************************************)
NoOut == [answer |-> "", sources |-> <<>>, rag_mode |-> "", error |-> ""]

\* chain.js:209: base, and the fields the steps add to it
RagIn0(question) ==
  [question |-> question, match_count |-> TEXT_K, doc_sha |-> NoSha,
   qVec |-> NoVec, matches |-> <<>>, maxSim |-> 0, top3Avg |-> Avg(0, 1),
   context |-> <<>>, sources |-> <<>>, branch |-> "", intent |-> "",
   answer |-> ""]

\* what getEmbedding(question, "query") resolves to
QueryVec == [len |-> D, dir |-> 0, mag |-> 1]

\* what callLLMStream resolves to (text.trim()): some text, "", "모릅니다."
Answers == {"text", "empty", "refusal"}

Called(kind, context) == [kind |-> kind, context |-> context]

\* chain.js:32-34: getEmbedding resolves
EmbedQuestion ==
  /\ rpc = "embed"
  /\ rcalls' = Append(rcalls, Called("embed", <<>>))
  /\ rin' = [rin EXCEPT !.qVec = QueryVec]
  /\ rpc' = "search"
  /\ UNCHANGED <<rout, storeVars, uploadVars, ingestVars,
                 unitVars>>

\* chain.js:34: getEmbedding rejects, runRag rejects
EmbedQuestionFail ==
  /\ rpc = "embed"
  /\ rcalls' = Append(rcalls, Called("embed", <<>>))
  /\ rpc' = "error"
  /\ rout' = [NoOut EXCEPT !.error = "embedding"]
  /\ UNCHANGED <<rin, storeVars, uploadVars, ingestVars,
                 unitVars>>

\* chain.js:36-61: the three searches, matches and maxSim
SearchSlices ==
  /\ rpc = "search"
  /\ LET m == Matches(vectorCache, rin.qVec, rin.match_count, rin.doc_sha)
     IN  rin' = [rin EXCEPT !.matches = m, !.maxSim = MaxSeq(Sims(m))]
  /\ rcalls' = rcalls \o <<Called("search", <<>>), Called("search", <<>>),
                           Called("search", <<>>)>>
  /\ rpc' = "retrieve"
  /\ UNCHANGED <<rout, storeVars, uploadVars, ingestVars,
                 unitVars>>

\* repo.js:137-140: the content query of a search rejects
SearchFail ==
  /\ rpc = "search"
  /\ Matches(vectorCache, rin.qVec, rin.match_count, rin.doc_sha) # <<>>
  /\ rcalls' = Append(rcalls, Called("search", <<>>))
  /\ rpc' = "error"
  /\ rout' = [NoOut EXCEPT !.error = "search"]
  /\ UNCHANGED <<rin, storeVars, uploadVars, ingestVars,
                 unitVars>>

\* chain.js:67-74
RetrieveDocs ==
  /\ rpc = "retrieve"
  /\ rin' = [rin EXCEPT !.top3Avg = top3Avg(Sims(rin.matches))]
  /\ rpc' = "context"
  /\ UNCHANGED <<rcalls, rout, storeVars, uploadVars, ingestVars,
                 unitVars>>

\* chain.js:79-105
BuildContext ==
  /\ rpc = "context"
  /\ rin' = [rin EXCEPT !.context = ContextOf(rin.matches),
                        !.sources = SourcesOf(rin.matches)]
  /\ rpc' = "branch"
  /\ UNCHANGED <<rcalls, rout, storeVars, uploadVars, ingestVars,
                 unitVars>>

\* variant of Gate: top3Avg is not consulted
GateMaxSimOnly(in) == in.maxSim >= USE_AS_CTX_MIN

\* chain.js:164-167
Gate(in) == in.maxSim >= USE_AS_CTX_MIN \/ AvgGE(in.top3Avg, MIN_TOP3_AVG)

\* chain.js:148-195: the condition of each branch in turn and the first
\* step of the branch taken
AutoBranch ==
  /\ rpc = "branch"
  /\ IF smalltalkRe(Trim(rin.question))
     THEN /\ rin' = [rin EXCEPT !.branch = "smalltalk", !.context = <<>>]
          /\ rpc' = "llm"
     ELSE IF Gate(rin)
     THEN /\ rin' = [rin EXCEPT !.branch = "document"]
          /\ rpc' = "classify"
     ELSE /\ rin' = [rin EXCEPT !.branch = "general", !.context = <<>>]
          /\ rpc' = "llm"
  /\ UNCHANGED <<rcalls, rout, storeVars, uploadVars, ingestVars,
                 unitVars>>

\* intent.js:10-50 from chain.js:171: the table phrases decide without a
\* call; otherwise the model is asked, and an error or timeout gives "plain"
ClassifyIntent(reply) ==
  /\ rpc = "classify"
  /\ IF tableLikeRe(rin.question)
     THEN /\ rin' = [rin EXCEPT !.intent = "table"]
          /\ rcalls' = rcalls
     ELSE /\ rin' = [rin EXCEPT !.intent = IF reply = "table" THEN "table"
                                                             ELSE "plain"]
          /\ rcalls' = Append(rcalls, Called("classify", <<>>))
  /\ rpc' = "llm"
  /\ UNCHANGED <<rout, storeVars, uploadVars, ingestVars,
                 unitVars>>

\* variant of BranchResult: every branch hands on the sources of buildContext
BranchResultKeepSources(in) ==
  [NoOut EXCEPT !.answer = in.answer,
                !.sources = in.sources,
                !.rag_mode = IF in.branch = "document"
                             THEN (IF in.intent = "table" THEN "rag-table"
                                                           ELSE "rag-plain")
                             ELSE in.branch]

\* chain.js:159, 180-184, 194: the value the branch taken returns
BranchResult(in) ==
  [NoOut EXCEPT !.answer = in.answer,
                !.sources = IF in.branch = "document" THEN in.sources ELSE <<>>,
                !.rag_mode = IF in.branch = "document"
                             THEN (IF in.intent = "table" THEN "rag-table"
                                                           ELSE "rag-plain")
                             ELSE in.branch]

\* chain.js:110-143 and the last step of the branch: callLLMStream resolves
CallLLM(answer) ==
  /\ rpc = "llm"
  /\ rcalls' = Append(rcalls, Called("llm", rin.context))
  /\ rin' = [rin EXCEPT !.answer = answer]
  /\ rout' = BranchResult([rin EXCEPT !.answer = answer])
  /\ rpc' = "done"
  /\ UNCHANGED <<storeVars, uploadVars, ingestVars,
                 unitVars>>

\* chain.js:136: callLLMStream rejects, runRag rejects
CallLLMFail ==
  /\ rpc = "llm"
  /\ rcalls' = Append(rcalls, Called("llm", rin.context))
  /\ rpc' = "error"
  /\ rout' = [NoOut EXCEPT !.error = "llm"]
  /\ UNCHANGED <<rin, storeVars, uploadVars, ingestVars,
                 unitVars>>

NextRag ==
  \/ EmbedQuestion
  \/ EmbedQuestionFail
  \/ SearchSlices
  \/ SearchFail
  \/ RetrieveDocs
  \/ BuildContext
  \/ AutoBranch
  \/ \E reply \in {"table", "plain", "error"} : ClassifyIntent(reply)
  \/ \E answer \in Answers : CallLLM(answer)
  \/ CallLLMFail

\* the fragments of the Index when the question arrives: a type and the
\* angle to the query vector (similarities 0.58, 0.50, 0.64 and 0.29)
RagKinds == {[type |-> "pdf", dir |-> 54],
             [type |-> "table_row", dir |-> 60],
             [type |-> "image_caption", dir |-> 50],
             [type |-> "pdf", dir |-> 73]}

RagMeta(kind) == [type |-> kind.type, sha256 |-> "a"]
RagVec(kind) == [len |-> D, dir |-> kind.dir, mag |-> 1]

\* a server whose Index is loaded and holds the fragments kinds[1..n], of
\* contents contents[1..n], receives the question
RagInitWith(question, kinds, contents) ==
  /\ documents = {[id |-> i, content |-> contents[i],
                   metadata |-> RagMeta(kinds[i])] : i \in 1..Len(kinds)}
  /\ embeddings = {[document_id |-> i, embedding |-> RagVec(kinds[i])] :
                     i \in 1..Len(kinds)}
  /\ nextId = Len(kinds) + 1
  /\ tx = [p \in Procs |-> NoTx]
  /\ connHeld = {}
  /\ vectorCache = [i \in 1..Len(kinds) |->
                      [id |-> i, metadata |-> RagMeta(kinds[i]),
                       embedding |-> RagVec(kinds[i])]]
  /\ isCacheLoaded = TRUE
  /\ pc = [p \in Procs |-> "idle"]
  /\ loc = [p \in Procs |-> Loc0]
  /\ nCalls = [insert |-> 0, other |-> 0]
  /\ UploadIdle
  /\ rpc = "embed"
  /\ rin = RagIn0(question)
  /\ rcalls = <<>>
  /\ rout = NoOut

\* the same, every fragment with a content of 100 characters
RagInit0(question, kinds) ==
  RagInitWith(question, kinds, [i \in 1..Len(kinds) |-> 100])

InitRag ==
  \E question \in SeqsUpTo(QChars, MaxQLen), kinds \in SeqsUpTo(RagKinds, MaxIndex) :
    RagInit0(question, kinds)

SpecRag == InitRag /\ [][NextRag]_vars

\* the same chain on a longer Index, for the statistics of the results
InitRetrieve ==
  \E kinds \in SeqsUpTo(RagKinds, MaxHits) : RagInit0(<<"o">>, kinds)

SpecRetrieve == InitRetrieve /\ [][NextRag]_vars

(***************************************************************************)
(* Claims about runRag (SpecRag, SpecRetrieve)                             *)
(***************************************************************************)
\* the similarities of the union of the three slices
UnionSims == Sims(rin.matches)

\* the sets of positions of the n largest values of a sequence
LargestSets(sims, n) ==
  {I \in SUBSET (1..Len(sims)) :
     /\ Cardinality(I) = Min2(n, Len(sims))
     /\ \A i \in I : \A j \in (1..Len(sims)) \ I : sims[i] >= sims[j]}

RECURSIVE SumOver(_, _)
SumOver(sims, I) ==
  IF I = {} THEN 0
  ELSE LET i == CHOOSE x \in I : TRUE IN sims[i] + SumOver(sims, I \ {i})

\* retrieveDocs has run
Retrieved == rpc \in {"context", "branch", "classify", "llm", "done"}

\* the mean of the (up to) three largest similarities is at least c
MeanOfLargestGE(sims, c) ==
  \E I \in LargestSets(sims, 3) : I # {} /\ SumOver(sims, I) >= c * Cardinality(I)

\* C6: a question that does not match smalltalkRe is answered in rag-plain or
\* rag-table exactly when some similarity of the union is at least
\* USE_AS_CTX_MIN or the mean of its (up to three) largest similarities is at
\* least MIN_TOP3_AVG, and in general mode otherwise.
C6_GateDecidesDocumentMode ==
  (rpc = "done" /\ ~smalltalkRe(rin.question)) =>
     /\ rout.rag_mode \in {"rag-plain", "rag-table"} <=>
          \/ \E i \in 1..Len(UnionSims) : UnionSims[i] >= USE_AS_CTX_MIN
          \/ MeanOfLargestGE(UnionSims, MIN_TOP3_AVG)
     /\ rout.rag_mode \in {"rag-plain", "rag-table", "general"}

\* a question was answered in document mode on the strength of top3Avg alone
C6_Witness ==
  /\ rpc = "done"
  /\ ~smalltalkRe(rin.question)
  /\ rin.maxSim < USE_AS_CTX_MIN
  /\ Len(rin.matches) > 1
  /\ rout.rag_mode \in {"rag-plain", "rag-table"}

\* C7: whenever runRag returns for a question that matches smalltalkRe, the
\* result has rag_mode smalltalk and no sources, and the generation call was
\* made with the empty context, whatever the Index holds.
C7_SmalltalkResult ==
  (rpc = "done" /\ smalltalkRe(rin.question)) =>
     /\ rout.rag_mode = "smalltalk"
     /\ rout.sources = <<>>
     /\ rcalls[Len(rcalls)] = Called("llm", <<>>)

\* a greeting with white space or punctuation around it was answered while
\* the searches had found fragments above USE_AS_CTX_MIN
C7_Witness ==
  /\ rpc = "done"
  /\ smalltalkRe(rin.question)
  /\ Len(rin.question) > 1
  /\ rin.maxSim >= USE_AS_CTX_MIN
  /\ rin.sources # <<>>
  /\ rout.rag_mode = "smalltalk"

\* C8 as claimed: for a question that matches smalltalkRe no embedding call
\* and no search is issued, and no failure of either reaches the caller.
C8_SmalltalkSkipsRetrieval ==
  smalltalkRe(rin.question) =>
     /\ \A i \in 1..Len(rcalls) : rcalls[i].kind \notin {"embed", "search"}
     /\ rout.error \notin {"embedding", "search"}

\* C9 as amended: top3Avg is the mean of the three largest similarities of
\* the union, of all of them when the union holds one or two, and 0 when the
\* union is empty.
C9_Top3AvgOfUpToThree ==
  Retrieved =>
     /\ UnionSims = <<>> => rin.top3Avg.num = 0
     /\ UnionSims # <<>> =>
          \E I \in LargestSets(UnionSims, 3) :
            rin.top3Avg.num * Cardinality(I) = SumOver(UnionSims, I) * rin.top3Avg.den

\* four results, the largest similarity not among the first three of the union
C9_Witness ==
  /\ Retrieved
  /\ Len(UnionSims) = 4
  /\ UnionSims[4] > UnionSims[1]
  /\ rin.top3Avg.num > 0

\* C9 as claimed: the mean of the three largest similarities, and 0 whenever
\* the union holds fewer than three results.
C9_Top3AvgZeroIfFewer ==
  Retrieved =>
     /\ Len(UnionSims) < 3 => rin.top3Avg.num = 0
     /\ Len(UnionSims) >= 3 =>
          \E I \in LargestSets(UnionSims, 3) :
            rin.top3Avg.num * 3 = SumOver(UnionSims, I) * rin.top3Avg.den

\* C10 as claimed: document mode with an empty or refusing answer returns no
\* sources.
C10_NoSourcesWithoutAnswer ==
  (rpc = "done" /\ rin.branch = "document" /\ rin.answer \in {"empty", "refusal"}) =>
     rout.sources = <<>>

(***************************************************************************)
(* buildContext on contents of several lengths (SpecContext)               *)
(***************************************************************************)
\* contents by their length after trim(): blank, short, at the limit of
\* chain.js:89, just above it, far above it
CtxContents == {0, 100, 1600, 1601, 2400}

CtxKinds == {[type |-> "pdf", dir |-> 54], [type |-> "image_caption", dir |-> 50]}

InitContext ==
  \E n \in 0..MaxCtxDocs :
    \E kinds \in [1..n -> CtxKinds], contents \in [1..n -> CtxContents] :
      RagInitWith(<<"o">>, kinds, contents)

SpecContext == InitContext /\ [][NextRag]_vars

\* C11 as claimed: right after buildContext every fragment text of the
\* context has at most 1600 characters and the texts together have at most
\* MAX_CTX.
C11_ContextWithinLimits ==
  rpc = "branch" =>
     /\ \A n \in 1..Len(rin.context) : rin.context[n] <= LongPiece
     /\ SumSeq(rin.context) <= MAX_CTX

(***************************************************************************)
(* matchDocuments alone, on a loaded Index (SpecMatch): one caller, calls   *)
(* one after the other, every option of repo.js:104                         *)
(***************************************************************************)
\* entries of vectorCache: metadata and the angle to the query vector.
\* Similarities: 0 degrees 1.00, 45 degrees 0.70, 46 degrees 0.69,
\* 69 degrees 0.35.  Type "none" is a metadata without a type.
MatchKinds ==
  {[type |-> "pdf",       sha256 |-> "a", dir |-> 45],
   [type |-> "pdf",       sha256 |-> "b", dir |-> 45],
   [type |-> "table_row", sha256 |-> "a", dir |-> 0],
   [type |-> "none",      sha256 |-> "a", dir |-> 46],
   [type |-> "table_row", sha256 |-> "b", dir |-> 69]}

MatchQuery == [len |-> D, dir |-> 0, mag |-> 2]

\* options: k given or left at its default, threshold given or left at its
\* default, types null, [] or a list, sha256 null or given
MatchOpts ==
  {Opts(k, t, ty.given, ty.types, sha) :
     k \in {0, 1, 2, DefaultK},
     t \in {RETRIEVE_MIN, DefaultThreshold},
     ty \in {[given |-> FALSE, types |-> {}],
             [given |-> TRUE, types |-> {}],
             [given |-> TRUE, types |-> {"pdf"}],
             [given |-> TRUE, types |-> {"pdf", "table_row"}]},
     sha \in {NoSha, "a"}}

MatchInit0(kinds) ==
  /\ documents = {[id |-> i, content |-> 100,
                   metadata |-> [type |-> kinds[i].type, sha256 |-> kinds[i].sha256]] :
                    i \in 1..Len(kinds)}
  /\ embeddings = {[document_id |-> i,
                    embedding |-> [len |-> D, dir |-> kinds[i].dir, mag |-> 1]] :
                     i \in 1..Len(kinds)}
  /\ nextId = Len(kinds) + 1
  /\ tx = [p \in Procs |-> NoTx]
  /\ connHeld = {}
  /\ vectorCache = LoadRows
  /\ isCacheLoaded = TRUE
  /\ pc = [p \in Procs |-> "idle"]
  /\ loc = [p \in Procs |-> Loc0]
  /\ nCalls = [insert |-> 0, other |-> 0]
  /\ UploadIdle
  /\ RagIdle

InitMatch == \E kinds \in SeqsUpTo(MatchKinds, MaxCache) : MatchInit0(kinds)

NextMatch ==
  \/ \E o \in MatchOpts : StoreOnly(MatchCall(1, MatchQuery, o))
  \/ StoreOnly(MatchScore(1))
  \/ StoreOnly(MatchFetch(1))
  \/ StoreOnly(MatchFetchFail(1))
  \/ StoreOnly(Return(1))

SpecMatch == InitMatch /\ [][NextMatch]_vars

(***************************************************************************)
(* Claims about matchDocuments (SpecMatch)                                 *)
(***************************************************************************)
\* the call of slot 1 has returned its results
Matched == pc[1] = "m_done"
Results == loc[1].topK

\* C12: the similarities of the results, in returned order, never increase.
C12_ResultsNonIncreasing ==
  Matched =>
     \A m, n \in 1..Len(Results) :
        m < n => Results[m].similarity >= Results[n].similarity

\* a call returned results of two different similarities, the Index holding
\* the smaller one first
C12_Witness ==
  /\ Matched
  /\ Len(Results) >= 2
  /\ Results[1].similarity > Results[Len(Results)].similarity
  /\ Results[1].id > Results[Len(Results)].id

\* C13 as amended: every result has its metadata.type in the types list of
\* the call when that list is given and not empty, and its metadata.sha256
\* equal to the sha256 of the call when one is given; an entry without a type
\* passes no such list.
C13_ResultsMatchFilter ==
  Matched =>
     \A n \in 1..Len(Results) :
        /\ (loc[1].opts.typesGiven /\ loc[1].opts.types # {}) =>
              /\ Results[n].metadata.type \in loc[1].opts.types
              /\ Results[n].metadata.type # "none"
        /\ loc[1].opts.sha256 # NoSha =>
              Results[n].metadata.sha256 = loc[1].opts.sha256

\* a call with types ["pdf"] and sha256 "a" returned a result while the Index
\* held an entry without a type and an entry of another sha256, both similar
\* enough
C13_Witness ==
  /\ Matched
  /\ loc[1].opts.types = {"pdf"}
  /\ loc[1].opts.sha256 = "a"
  /\ loc[1].opts.threshold = RETRIEVE_MIN
  /\ Len(Results) > 0
  /\ \E i \in 1..Len(vectorCache) : vectorCache[i].metadata.type = "none"
  /\ \E i \in 1..Len(vectorCache) :
       vectorCache[i].metadata = [type |-> "pdf", sha256 |-> "b"]

\* C13 as claimed: the same for every given types list, the empty list
\* admitting no result.
C13_EmptyTypesAdmitNothing ==
  Matched =>
     \A n \in 1..Len(Results) :
        /\ loc[1].opts.typesGiven => Results[n].metadata.type \in loc[1].opts.types
        /\ loc[1].opts.sha256 # NoSha =>
              Results[n].metadata.sha256 = loc[1].opts.sha256

\* the similarity of the entry at position i of vectorCache to the query of
\* the call, and whether the filters of the call let the entry through
SimOf(i) == dot(l2Normalize(loc[1].q), vectorCache[i].embedding)

FilterAdmits(i) ==
  /\ (loc[1].opts.typesGiven /\ loc[1].opts.types # {}) =>
        vectorCache[i].metadata.type \in loc[1].opts.types
  /\ loc[1].opts.sha256 # NoSha =>
        vectorCache[i].metadata.sha256 = loc[1].opts.sha256

\* the positions of the candidates of the call
Candidates ==
  {i \in 1..Len(vectorCache) : FilterAdmits(i) /\ SimOf(i) >= loc[1].opts.threshold}

\* the position in vectorCache of the n-th result
PosOf(n) == CHOOSE i \in 1..Len(vectorCache) : vectorCache[i].id = Results[n].id

\* C14: no result has a similarity below the threshold of the call, and an
\* entry that passes the filters with a similarity equal to the threshold is
\* returned when k leaves room for every entry.
C14_ThresholdInclusive ==
  Matched =>
     /\ \A n \in 1..Len(Results) :
           /\ Results[n].similarity >= loc[1].opts.threshold
           /\ Results[n].similarity = SimOf(PosOf(n))
     /\ loc[1].opts.k >= Len(vectorCache) =>
           \A i \in 1..Len(vectorCache) :
              (FilterAdmits(i) /\ SimOf(i) = loc[1].opts.threshold) =>
                 \E n \in 1..Len(Results) : Results[n].id = vectorCache[i].id

\* a call with the default threshold returned an entry of similarity 0.70
\* and left out one of similarity 0.69
C14_Witness ==
  /\ Matched
  /\ loc[1].opts.threshold = DefaultThreshold
  /\ \E n \in 1..Len(Results) : Results[n].similarity = DefaultThreshold
  /\ \E i \in 1..Len(vectorCache) :
       /\ FilterAdmits(i)
       /\ SimOf(i) = DefaultThreshold - 1
       /\ \A n \in 1..Len(Results) : Results[n].id # vectorCache[i].id

\* the positions in vectorCache of the results
Returned == {PosOf(n) : n \in 1..Len(Results)}

\* C15: the results are the first k candidates in the order of a stable
\* descending sort: min(k, number of candidates) different candidates, each
\* with its id, metadata and similarity; no candidate left out is more
\* similar than a returned one, or as similar and earlier in the Index; and
\* results of equal similarity are in Index order.
C15_FirstKOfStableSort ==
  Matched =>
     /\ Len(Results) = Min2(loc[1].opts.k, Cardinality(Candidates))
     /\ Cardinality(Returned) = Len(Results)
     /\ Returned \subseteq Candidates
     /\ \A n \in 1..Len(Results) :
           /\ \E i \in 1..Len(vectorCache) : vectorCache[i].id = Results[n].id
           /\ Results[n].metadata = vectorCache[PosOf(n)].metadata
           /\ Results[n].similarity = SimOf(PosOf(n))
     /\ \A c \in Candidates \ Returned : \A r \in Returned :
           /\ SimOf(c) <= SimOf(r)
           /\ SimOf(c) = SimOf(r) => c > r
     /\ \A m, n \in 1..Len(Results) :
           m < n =>
              /\ Results[m].similarity >= Results[n].similarity
              /\ Results[m].similarity = Results[n].similarity => PosOf(m) < PosOf(n)

\* k = 1 cut between two candidates of equal similarity while a less similar
\* candidate stood before them in the Index
C15_Witness ==
  /\ Matched
  /\ loc[1].opts.k = 1
  /\ Len(Results) = 1
  /\ \E c \in Candidates \ Returned : SimOf(c) = Results[1].similarity
  /\ \E c \in Candidates : c < PosOf(1) /\ SimOf(c) < Results[1].similarity

(***************************************************************************)
(* Sequential callers of the store (SpecLoad): one caller, which starts    *)
(* its next call only after the previous one has settled                   *)
(***************************************************************************)
\* the vectors handed to insertDocumentWithEmbedding by the sequential caller:
\* those of SpecStore, the all-zero vector and a vector that is already unit
LoadVecs == StoreVecs \cup {[len |-> D, dir |-> 0, mag |-> 0],
                            [len |-> D, dir |-> 0, mag |-> 1]}

NextLoad ==
  \/ \E c \in StoreContent, m \in StoreMetas, v \in LoadVecs :
       StoreOnly(InsertCall(1, c, m, v))
  \/ StoreOnly(GetConnection(1))
  \/ StoreOnly(GetConnectionFail(1))
  \/ StoreOnly(BeginTransaction(1))
  \/ StoreOnly(InsertDocumentsRow(1))
  \/ StoreOnly(InsertEmbeddingsRow(1))
  \/ StoreOnly(Commit(1))
  \/ StoreOnly(AfterCommit(1))
  \/ StoreOnly(StatementFail(1))
  \/ StoreOnly(Rollback(1))
  \/ StoreOnly(LoadCall(1))
  \/ \E q \in StoreQueries, o \in StoreOpts : StoreOnly(MatchCall(1, q, o))
  \/ StoreOnly(LoadQuery(1))
  \/ StoreOnly(LoadQueryFail(1))
  \/ StoreOnly(LoadAssign(1))
  \/ StoreOnly(MatchScore(1))
  \/ StoreOnly(MatchFetch(1))
  \/ StoreOnly(MatchFetchFail(1))
  \/ StoreOnly(Return(1))

SpecLoad == InitStore /\ [][NextLoad]_vars

\* C16: with sequential callers, a load called while loaded is true settles
\* at once, without a scan and with the Index unchanged; a scan starts only
\* while loaded is false; once loaded is true it stays true and the Index
\* only grows at its end (the first load's rows plus the appends since); a
\* load that fails leaves loaded false and the Index untouched, and carries
\* the error to its caller.
C16_LoadIdempotent ==
  [][/\ (pc[1] = "idle" /\ pc'[1] = "load_done")
          => isCacheLoaded /\ isCacheLoaded' /\ vectorCache' = vectorCache
     /\ (pc[1] = "idle" /\ pc'[1] = "load_query") => ~isCacheLoaded
     /\ (pc[1] = "idle" /\ pc'[1] = "m_score") => isCacheLoaded
     /\ isCacheLoaded
          => /\ isCacheLoaded'
             /\ Len(vectorCache') >= Len(vectorCache)
             /\ SubSeq(vectorCache', 1, Len(vectorCache)) = vectorCache
     /\ (pc[1] = "load_query" /\ pc'[1] \in {"load_failed", "m_failed"})
          => /\ ~isCacheLoaded'
             /\ vectorCache' = vectorCache
             /\ loc'[1].err = "load"]_vars

\* a third call, a load, has settled at once after a load and an append
C16_Witness ==
  /\ pc[1] = "load_done"
  /\ isCacheLoaded
  /\ loc[1].rows = Loc0.rows
  /\ nCalls.insert = 1
  /\ nCalls.other = 2
  /\ Len(vectorCache) = Cardinality(JoinedIds)
  /\ Len(vectorCache) >= 1

\* the embeddings that are durable or in vectorCache
StoredEmbeddings ==
  {e.embedding : e \in embeddings}
    \cup {vectorCache[i].embedding : i \in 1..Len(vectorCache)}

\* the insert of slot 1 has committed the fragment loc[1].docId
InsertCommitted == pc[1] \in {"committed", "ins_done"}

\* C26 as stated: every embedding that insertDocumentWithEmbedding persists
\* or appends to vectorCache has Euclidean norm 1, whatever accepted vector of
\* length D it was given, the all-zero vector included.
C26_StoredNormOne == \A v \in StoredEmbeddings : v.mag = 1

\* C26 amended: an accepted vector of length D that is not all-zero is
\* persisted and appended to vectorCache with norm 1 and its direction kept
\* (a vector that is already unit is stored as it is); the all-zero vector is
\* accepted and stored unchanged, with norm 0.  The row of the transaction,
\* the committed row and the vectorCache entry all hold that same vector.
C26_NonZeroStoredUnit ==
  /\ (InInsert(1) \/ pc[1] = "ins_done")
       => /\ loc[1].embNorm.len = loc[1].embedding.len
          /\ loc[1].embNorm.dir = loc[1].embedding.dir
          /\ loc[1].embNorm.mag = IF loc[1].embedding.mag = 0 THEN 0 ELSE 1
          /\ \A e \in tx[1].embs : e.embedding = loc[1].embNorm
  /\ InsertCommitted
       => /\ \E e \in embeddings : e.document_id = loc[1].docId
          /\ \A e \in embeddings :
                e.document_id = loc[1].docId => e.embedding = loc[1].embNorm
          /\ \A i \in 1..Len(vectorCache) :
                vectorCache[i].id = loc[1].docId
                  => vectorCache[i].embedding = loc[1].embNorm
  /\ \A v \in StoredEmbeddings : v.mag \in {0, 1}

C26_Witness ==
  /\ pc[1] = "ins_done"
  /\ loc[1].embedding.mag = 2
  /\ \E e \in embeddings :
        e.document_id = loc[1].docId /\ e.embedding.mag = 1
  /\ \E i \in 1..Len(vectorCache) :
        vectorCache[i].id = loc[1].docId /\ vectorCache[i].embedding.mag = 1

(***************************************************************************)
(* handleUpload, all stages of one ingestion (env.js:316-695)              *)
(*                                                                         *)
(* ing.stage is the await the handler is suspended at.  A caption is ""    *)
(* (the parser delivered none) or a text; a page is 0 (none delivered) or  *)
(* a page number.  An insert of a fragment is one step from its start to   *)
(* its settlement; the limiters are the counters of createLimiter.         *)
(***************************************************************************)
\* what the parser delivers for one table: a captioned table with rows, a
\* table without caption and rows, a captioned table on a late page
TableKinds ==
  {[caption |-> "cap", page |-> 0, rows |-> MaxRows],
   [caption |-> "",    page |-> 0, rows |-> 0],
   [caption |-> "cap", page |-> MAX_CAPTION_PAGES + 1, rows |-> 0]}

\* and for one picture
PictureKinds ==
  {[caption |-> "cap", page |-> 0],
   [caption |-> "",    page |-> 0],
   [caption |-> "cap", page |-> MAX_CAPTION_PAGES],
   [caption |-> "cap", page |-> MAX_CAPTION_PAGES + 1]}

IngestDocs == [tables   : SeqsUpTo(TableKinds, MaxTables),
               pictures : SeqsUpTo(PictureKinds, MaxPictures),
               chunks   : {1, MaxProse}]

\* createLimiter (part_003:107-109): nothing queued, nothing active; left
\* counts the tasks whose promises the caller's Promise.all still awaits
Limiter0 == [q |-> 0, active |-> 0, ticks |-> 0, left |-> 0]

\* run (part_003:110-126) on the counters of a limiter
runCount(l) ==
  IF l.active >= LimiterCap \/ l.q = 0
  THEN l
  ELSE [l EXCEPT !.active = @ + 1, !.q = @ - 1]

\* n calls of the limiter function (part_003:128-132) under one Promise.all
limitAll(l, n) == [l EXCEPT !.q = @ + n, !.ticks = @ + n, !.left = n]

\* the handlers of part_003:117-126 after a task settled
settled(l) == runCount([l EXCEPT !.active = @ - 1])

NoCur == [caption |-> "", emb |-> FALSE, asset |-> 0]

\* the handler before a request (FAST_MODE is fixed when the process starts)
Ingest0(fast) ==
  [stage |-> "none", fast |-> fast,
   doc |-> [tables |-> <<>>, pictures |-> <<>>, chunks |-> 0],
   i |-> 0, cur |-> NoCur,
   assets |-> <<>>, bodies |-> {}, frags |-> {}, embCalls |-> {},
   thrown |-> {}, log |-> {},
   rowL |-> Limiter0, rowAsset |-> 0, proseL |-> Limiter0, inserted |-> 0]

\* env.js:468-472 and 576-580
doCaptionEmb(fast, pageNo, caption) ==
  /\ ~fast
  /\ MAX_CAPTION_PAGES > 0
  /\ pageNo <= MAX_CAPTION_PAGES
  /\ caption # ""

\* t?.caption || "Table", p.caption || `Image ${i + 1}` (env.js:454, 570)
captionOr(caption, fallback) == IF caption = "" THEN fallback ELSE caption

\* t?.page || 1 (env.js:453, 569)
pageOr1(page) == IF page = 0 THEN 1 ELSE page

\* process.nextTick callbacks run before any promise or I/O callback
NoTicks == ing.rowL.ticks = 0 /\ ing.proseL.ticks = 0

\* env.js:318-346: the file is saved and handed to the parser
IngestStart(doc) ==
  /\ ing.stage = "none"
  /\ ing' = [ing EXCEPT !.stage = "extract", !.doc = doc]

\* env.js:343-346: the parser answers with text, tables and pictures
ExtractResolve ==
  /\ ing.stage = "extract"
  /\ ing' = [ing EXCEPT !.stage = "render"]

\* env.js:343: the parser fails; the catch of env.js:691-694 answers 500
ExtractReject ==
  /\ ing.stage = "extract"
  /\ ing' = [ing EXCEPT !.stage = "failed",
                        !.thrown = @ \cup {"extract"},
                        !.log = @ \cup {"/upload error"}]

\* env.js:353-376: the page images are rendered and saved
RenderResolve ==
  /\ ing.stage = "render"
  /\ ing' = [ing EXCEPT !.stage = "table", !.i = 1]

\* env.js:377-379: rendering fails, the handler warns and goes on
RenderReject ==
  /\ ing.stage = "render"
  /\ ing' = [ing EXCEPT !.stage = "table", !.i = 1,
                        !.thrown = @ \cup {"render"},
                        !.log = @ \cup {"page image render failed"}]

\* env.js:441-475: the next table; its caption is embedded or not
TableBegin ==
  /\ ing.stage = "table"
  /\ ing.i <= Len(ing.doc.tables)
  /\ LET t       == ing.doc.tables[ing.i]
         pageNo  == pageOr1(t.page)
         caption == captionOr(t.caption, "Table")
     IN  IF doCaptionEmb(ing.fast, pageNo, caption)
         THEN ing' = [ing EXCEPT
                        !.stage = "t_emb",
                        !.cur = [NoCur EXCEPT !.caption = caption],
                        !.embCalls = @ \cup {[kind |-> "table", i |-> ing.i,
                                              text |-> caption]}]
         ELSE ing' = [ing EXCEPT
                        !.stage = "t_asset",
                        !.cur = [NoCur EXCEPT !.caption = caption]]

\* env.js:441, 564: the loop over the tables is over
TableStageDone ==
  /\ ing.stage = "table"
  /\ ing.i > Len(ing.doc.tables)
  /\ ing' = [ing EXCEPT !.stage = "picture", !.i = 1]

\* env.js:473-475: getEmbedding(caption) resolves
TableEmbResolve ==
  /\ ing.stage = "t_emb"
  /\ ing' = [ing EXCEPT !.stage = "t_asset", !.cur.emb = TRUE]

\* env.js:478-487: insertDocAsset resolves with the id of the new asset
TableAssetResolve ==
  /\ ing.stage = "t_asset"
  /\ ing' = [ing EXCEPT
               !.stage = "t_body",
               !.cur.asset = Len(ing.assets) + 1,
               !.assets = Append(@, [type |-> "table", item |-> ing.i,
                                     caption_text |-> ing.cur.caption,
                                     caption_emb |-> ing.cur.emb])]

\* env.js:490-500: insertDocTable resolves, the row of doc_tables that
\* refers to the asset is stored (repo.js:249-264); rows are embedded when
\* effectiveMaxTableRowsEmb > 0 (env.js:436) and the table has rows
TableBodyResolve ==
  /\ ing.stage = "t_body"
  /\ IF (IF ing.fast THEN 0 ELSE MAX_TABLE_ROWS_EMB) > 0
        /\ ing.doc.tables[ing.i].rows > 0
     THEN ing' = [ing EXCEPT !.stage = "t_rowemb",
                             !.bodies = @ \cup {ing.cur.asset}]
     ELSE ing' = [ing EXCEPT !.stage = "table", !.i = @ + 1,
                             !.bodies = @ \cup {ing.cur.asset}]

\* env.js:501-552: the row sentences are embedded in one batch and every
\* row is handed to rowInsertLimiter under one Promise.all
RowEmbResolve ==
  /\ ing.stage = "t_rowemb"
  /\ ing' = [ing EXCEPT
               !.stage = "t_rows",
               !.rowAsset = ing.cur.asset,
               !.rowL = limitAll(@, Min2(ing.doc.tables[ing.i].rows,
                                         MAX_TABLE_ROWS_EMB))]

\* an awaited call of the table stage rejects (or the batch has the wrong
\* size, env.js:526-528): the catch of env.js:560-562 warns and the handler
\* goes on with the pictures
TableStageReject ==
  /\ ing.stage \in {"t_emb", "t_asset", "t_body", "t_rowemb"}
  /\ ing' = [ing EXCEPT !.stage = "picture", !.i = 1,
                        !.thrown = @ \cup {"table"},
                        !.log = @ \cup {"table asset save skipped"}]

\* one process.nextTick(run) callback of rowInsertLimiter
RowTick ==
  /\ ing.rowL.ticks > 0
  /\ ing' = [ing EXCEPT !.rowL = runCount([@ EXCEPT !.ticks = @ - 1])]

\* a row's insertDocumentWithEmbedding resolves (env.js:548); with the last
\* one Promise.all resolves and the loop goes to the next table
RowResolve ==
  /\ NoTicks
  /\ ing.rowL.active > 0
  /\ LET l    == settled(ing.rowL)
         left == IF l.left > 0 THEN l.left - 1 ELSE 0
         last == ing.stage = "t_rows" /\ left = 0
     IN  ing' = [ing EXCEPT
                   !.rowL = [l EXCEPT !.left = left],
                   !.frags = @ \cup {[type |-> "table_row",
                                      asset_id |-> ing.rowAsset]},
                   !.stage = IF last THEN "table" ELSE @,
                   !.i = IF last THEN @ + 1 ELSE @]

\* a row's insert rejects: the first rejection rejects Promise.all and the
\* catch of env.js:560-562 warns; the handler goes on with the pictures
\* while the other rows stay with the limiter
RowReject ==
  /\ NoTicks
  /\ ing.rowL.active > 0
  /\ LET l     == settled(ing.rowL)
         first == ing.stage = "t_rows"
     IN  ing' = [ing EXCEPT
                   !.rowL = [l EXCEPT !.left = 0],
                   !.thrown = @ \cup {"table"},
                   !.log = IF first THEN @ \cup {"table asset save skipped"}
                                    ELSE @,
                   !.stage = IF first THEN "picture" ELSE @,
                   !.i = IF first THEN 1 ELSE @]

\* env.js:566-583: the next picture; its caption is embedded or not
PictureBegin ==
  /\ ing.stage = "picture"
  /\ ing.i <= Len(ing.doc.pictures)
  /\ LET p       == ing.doc.pictures[ing.i]
         pageNo  == pageOr1(p.page)
         caption == captionOr(p.caption, "Image")
     IN  IF doCaptionEmb(ing.fast, pageNo, caption)
         THEN ing' = [ing EXCEPT
                        !.stage = "p_emb",
                        !.cur = [NoCur EXCEPT !.caption = caption],
                        !.embCalls = @ \cup {[kind |-> "image", i |-> ing.i,
                                              text |-> caption]}]
         ELSE ing' = [ing EXCEPT
                        !.stage = "p_asset",
                        !.cur = [NoCur EXCEPT !.caption = caption]]

\* env.js:566, 619: the loop over the pictures is over
PictureStageDone ==
  /\ ing.stage = "picture"
  /\ ing.i > Len(ing.doc.pictures)
  /\ ing' = [ing EXCEPT !.stage = "chunk"]

\* env.js:581-583: getEmbedding(caption) resolves
PictureEmbResolve ==
  /\ ing.stage = "p_emb"
  /\ ing' = [ing EXCEPT !.stage = "p_asset", !.cur.emb = TRUE]

\* env.js:585-596: insertDocAsset resolves; env.js:598: the caption
\* fragment is inserted if (captionEmb)
PictureAssetResolve ==
  /\ ing.stage = "p_asset"
  /\ ing' = [ing EXCEPT
               !.stage = IF ing.cur.emb THEN "p_frag" ELSE "picture",
               !.i = IF ing.cur.emb THEN @ ELSE @ + 1,
               !.cur.asset = Len(ing.assets) + 1,
               !.assets = Append(@, [type |-> "image", item |-> ing.i,
                                     caption_text |-> ing.cur.caption,
                                     caption_emb |-> ing.cur.emb])]

\* env.js:599-611: insertDocumentWithEmbedding of the caption resolves
PictureFragResolve ==
  /\ ing.stage = "p_frag"
  /\ ing' = [ing EXCEPT
               !.stage = "picture",
               !.i = @ + 1,
               !.frags = @ \cup {[type |-> "image_caption",
                                  asset_id |-> ing.cur.asset]}]

\* the picture stage without its own catch: the rejection reaches the catch
\* of env.js:691-694
PictureStageRejectSurfaced ==
  /\ ing.stage \in {"p_emb", "p_asset", "p_frag"}
  /\ ing' = [ing EXCEPT !.stage = "failed",
                        !.thrown = @ \cup {"image"},
                        !.log = @ \cup {"/upload error"}]

\* an awaited call of the picture stage rejects: the catch of
\* env.js:615-617 warns and the handler goes on with the prose
PictureStageReject ==
  /\ ing.stage \in {"p_emb", "p_asset", "p_frag"}
  /\ ing' = [ing EXCEPT !.stage = "chunk",
                        !.thrown = @ \cup {"image"},
                        !.log = @ \cup {"image asset save skipped"}]

\* env.js:619-681: the chunks are embedded in one batch and every chunk is
\* handed to limit under one Promise.all
ChunkEmbResolve ==
  /\ ing.stage = "chunk"
  /\ ing' = [ing EXCEPT !.stage = "fan",
                        !.proseL = limitAll(@, ing.doc.chunks)]

\* env.js:631-635: the batch embedding rejects or has the wrong size; the
\* catch of env.js:691-694 answers 500
ChunkEmbReject ==
  /\ ing.stage = "chunk"
  /\ ing' = [ing EXCEPT !.stage = "failed",
                        !.thrown = @ \cup {"embed"},
                        !.log = @ \cup {"/upload error"}]

\* one process.nextTick(run) callback of limit
ProseTick ==
  /\ ing.proseL.ticks > 0
  /\ ing' = [ing EXCEPT !.proseL = runCount([@ EXCEPT !.ticks = @ - 1])]

\* a chunk's insert resolves (env.js:677-678); with the last one Promise.all
\* resolves and res.json answers (env.js:683-690)
ProseResolve ==
  /\ NoTicks
  /\ ing.proseL.active > 0
  /\ LET l    == settled(ing.proseL)
         left == IF l.left > 0 THEN l.left - 1 ELSE 0
     IN  ing' = [ing EXCEPT
                   !.proseL = [l EXCEPT !.left = left],
                   !.frags = @ \cup {[type |-> "pdf", asset_id |-> 0]},
                   !.inserted = @ + 1,
                   !.stage = IF ing.stage = "fan" /\ left = 0 THEN "ok" ELSE @]

\* a chunk's task rejects (env.js:643-645, 677): the first rejection rejects
\* Promise.all and the catch of env.js:691-694 answers 500
ProseReject ==
  /\ NoTicks
  /\ ing.proseL.active > 0
  /\ LET l     == settled(ing.proseL)
         first == ing.stage = "fan"
     IN  ing' = [ing EXCEPT
                   !.proseL = [l EXCEPT !.left = 0],
                   !.thrown = @ \cup {"prose"},
                   !.log = IF first THEN @ \cup {"/upload error"} ELSE @,
                   !.stage = IF first THEN "failed" ELSE @]

\* the process is up, FAST_MODE is on or off (env.js:46), no request yet
InitIngest ==
  /\ StoreInit0(0)
  /\ lq = <<>> /\ active = 0 /\ ticks = 0 /\ task = <<>>
  /\ upl = "none" /\ inserted = 0
  /\ RagIdle
  /\ UnitIdle
  /\ \E fast \in BOOLEAN : ing = Ingest0(fast)

IngestOnly(A) == A /\ UNCHANGED <<storeVars, uploadVars, ragVars, unitVars>>

NextIngest ==
  \/ ing.stage = "none" /\ \E doc \in IngestDocs : IngestOnly(IngestStart(doc))
  \/ IngestOnly(ExtractResolve)
  \/ IngestOnly(ExtractReject)
  \/ IngestOnly(RenderResolve)
  \/ IngestOnly(RenderReject)
  \/ IngestOnly(TableBegin)
  \/ IngestOnly(TableStageDone)
  \/ IngestOnly(TableEmbResolve)
  \/ IngestOnly(TableAssetResolve)
  \/ IngestOnly(TableBodyResolve)
  \/ IngestOnly(RowEmbResolve)
  \/ IngestOnly(TableStageReject)
  \/ IngestOnly(RowTick)
  \/ IngestOnly(RowResolve)
  \/ IngestOnly(RowReject)
  \/ IngestOnly(PictureBegin)
  \/ IngestOnly(PictureStageDone)
  \/ IngestOnly(PictureEmbResolve)
  \/ IngestOnly(PictureAssetResolve)
  \/ IngestOnly(PictureFragResolve)
  \/ IngestOnly(PictureStageReject)
  \/ IngestOnly(ChunkEmbResolve)
  \/ IngestOnly(ChunkEmbReject)
  \/ IngestOnly(ProseTick)
  \/ IngestOnly(ProseResolve)
  \/ IngestOnly(ProseReject)

SpecIngest == InitIngest /\ [][NextIngest]_vars

(***************************************************************************)
(* Claims about one ingestion, all stages (SpecIngest)                     *)
(***************************************************************************)
\* fragment inserts that have started and not yet settled
InFlight ==
  ing.rowL.active + ing.proseL.active + (IF ing.stage = "p_frag" THEN 1 ELSE 0)

\* C17 as claimed: at every moment of one ingestion at most 8 fragment
\* inserts (LimiterCap) have started and not yet settled.
C17_InFlightWithinCap == InFlight <= LimiterCap

\* the item of the parser's output an asset was made from
ItemOf(a) ==
  IF a.type = "table" THEN ing.doc.tables[a.item] ELSE ing.doc.pictures[a.item]

\* the stages whose failure the handler answers with 500
SurfacedStages == {"extract", "embed", "prose"}

\* C18 as claimed: an upload is answered as successful only if nothing but
\* page rendering and table indexing failed (a failed asset move throws
\* nothing); in particular not after a failure of image indexing.
C18_OnlyRenderAndTableSkipped ==
  ing.stage = "ok" => ing.thrown \subseteq {"render", "table"}

\* C18, amended: failures of page rendering, table indexing and image
\* indexing are logged and skipped, they never fail the upload; a failure
\* of parsing, prose embedding or prose fragment insertion is logged at the
\* request boundary and answered as a failed upload, and nothing else is.
C18_SkippedOrSurfaced ==
  /\ ing.stage = "ok" => ing.thrown \subseteq {"render", "table", "image"}
  /\ ing.stage = "failed" <=> ing.thrown \cap SurfacedStages # {}
  /\ ing.stage = "failed" <=> "/upload error" \in ing.log
  /\ "render" \in ing.thrown <=> "page image render failed" \in ing.log
  /\ "table" \in ing.thrown <=> "table asset save skipped" \in ing.log
  /\ "image" \in ing.thrown <=> "image asset save skipped" \in ing.log

\* an upload was answered as successful although table indexing and image
\* indexing had failed
C18_Witness ==
  /\ ing.stage = "ok"
  /\ {"table", "image"} \subseteq ing.thrown
  /\ ing.inserted = ing.doc.chunks

\* C19 as claimed: after an ingestion in which nothing failed, every asset
\* (table or image) that got a caption embedding has a fragment of type
\* image_caption carrying its id.
C19_CaptionEmbMirrored ==
  (ing.stage = "ok" /\ ing.thrown = {}) =>
     \A a \in 1..Len(ing.assets) :
        ing.assets[a].caption_emb =>
           [type |-> "image_caption", asset_id |-> a] \in ing.frags

\* C20 as claimed: a caption is embedded only for a table or picture whose
\* caption the parser delivered non-empty, on a page <= MAX_CAPTION_PAGES
\* and with FAST_MODE off; a table or picture without a caption is stored
\* with no caption_emb.
C20_EmbOnlyForDeliveredCaption ==
  /\ \A c \in ing.embCalls :
        LET item == IF c.kind = "table" THEN ing.doc.tables[c.i]
                                        ELSE ing.doc.pictures[c.i]
        IN  /\ item.caption # ""
            /\ pageOr1(item.page) <= MAX_CAPTION_PAGES
            /\ ~ing.fast
  /\ \A a \in 1..Len(ing.assets) :
        ItemOf(ing.assets[a]).caption = "" => ~ing.assets[a].caption_emb

\* C21 as claimed: after any ingestion every asset of type table has its
\* table body; an asset whose body could not be inserted is not persisted.
C21_TableAssetHasBody ==
  ing.stage \in {"ok", "failed"} =>
     \A a \in 1..Len(ing.assets) :
        ing.assets[a].type = "table" => a \in ing.bodies

(***************************************************************************)
(* chunk.js: chunkTextTokens (SpecChunk)                                   *)
(*                                                                         *)
(* A token is "w" (its text has a character that trim() keeps) or "s"      *)
(* (white space only).  A chunk is its token range and is pushed when the  *)
(* decoded, trimmed text of the window is not empty (chunk.js:23-24).      *)
(***************************************************************************)
TokenKinds == {"w", "s"}

\* tokens.slice(start, end) (chunk.js:22), indices from 0
slice(tokens, start, end) ==
  [n \in 1..(IF end > start THEN end - start ELSE 0) |-> tokens[start + n]]

\* decodeTokens(chunkTokens).trim().length (chunk.js:23-24): 0 or positive
trimmedLength(chunkTokens) ==
  Cardinality({n \in 1..Len(chunkTokens) : chunkTokens[n] = "w"})

\* chunk.js:11: the call with its arguments
ChunkInit0(tokens, maxTokens, overlap) ==
  chk = [pc |-> "call", tokens |-> tokens, maxTokens |-> maxTokens,
         overlap |-> overlap, start |-> 0, chunks |-> <<>>]

\* chunk.js:12-19: the test of the arguments, encode, start = 0
ChunkCall ==
  /\ chk.pc = "call"
  /\ chk' = [chk EXCEPT !.pc = IF chk.overlap >= chk.maxTokens THEN "threw"
                                                              ELSE "loop"]

\* chunk.js:20-32: one turn of the loop
ChunkLoop ==
  /\ chk.pc = "loop"
  /\ chk.start < Len(chk.tokens)
  /\ LET end         == Min2(chk.start + chk.maxTokens, Len(chk.tokens))
         chunkTokens == slice(chk.tokens, chk.start, end)
     IN  chk' = [chk EXCEPT
                   !.chunks = IF trimmedLength(chunkTokens) > 0
                              THEN Append(@, [startTok |-> chk.start,
                                              endTok |-> end])
                              ELSE @,
                   !.start = @ + chk.maxTokens - chk.overlap]

\* chunk.js:20, 33: the loop ends, chunks is returned
ChunkReturn ==
  /\ chk.pc = "loop"
  /\ chk.start >= Len(chk.tokens)
  /\ chk' = [chk EXCEPT !.pc = "done"]

InitChunk ==
  /\ StoreInit0(0)
  /\ lq = <<>> /\ active = 0 /\ ticks = 0 /\ task = <<>>
  /\ upl = "none" /\ inserted = 0
  /\ RagIdle
  /\ ing = NoIngest /\ sse = NoUnit /\ req = NoUnit
  /\ docAssets = NoAssetRows
  /\ \E tokens \in SeqsUpTo(TokenKinds, MaxTokens),
        maxTokens \in 1..MaxWindow, overlap \in (0 - 1)..MaxWindow :
        ChunkInit0(tokens, maxTokens, overlap)

ChunkOnly(A) ==
  A /\ UNCHANGED <<storeVars, uploadVars, ragVars, ingestVars, sse, req,
                 docAssets>>

NextChunk ==
  \/ ChunkOnly(ChunkCall)
  \/ ChunkOnly(ChunkLoop)
  \/ ChunkOnly(ChunkReturn)

SpecChunk == InitChunk /\ [][NextChunk]_vars

\* token index idx lies in an emitted chunk
Covered(idx) ==
  \E n \in 1..Len(chk.chunks) :
     chk.chunks[n].startTok <= idx /\ idx < chk.chunks[n].endTok

\* C22 as claimed: a call with overlap >= maxTokens throws before the loop
\* and any other call does not throw; when the call has returned, every
\* token index 0..N-1 lies in an emitted chunk.
C22_ChunksCoverEveryToken ==
  /\ chk.overlap >= chk.maxTokens => chk.pc \in {"call", "threw"}
  /\ chk.pc = "threw" => chk.overlap >= chk.maxTokens /\ chk.chunks = <<>>
  /\ chk.pc = "done" => \A idx \in 0..(Len(chk.tokens) - 1) : Covered(idx)

\* C30 as claimed: with 0 <= overlap < maxTokens no emitted chunk's range
\* lies inside another emitted chunk's range, and no chunk is emitted after
\* one that has reached the end of the tokens.
C30_NoRedundantChunk ==
  (chk.pc \in {"loop", "done"} /\ chk.overlap >= 0) =>
     /\ \A m, n \in 1..Len(chk.chunks) :
           (m # n) =>
              ~(/\ chk.chunks[n].startTok <= chk.chunks[m].startTok
                /\ chk.chunks[m].endTok <= chk.chunks[n].endTok)
     /\ \A n \in 1..(Len(chk.chunks) - 1) :
           chk.chunks[n].endTok < Len(chk.tokens)

(***************************************************************************)
(* runRag, progress (SpecRagLive)                                          *)
(*                                                                         *)
(* The steps that run in the process are taken when they can be: the       *)
(* search over the Index, the statistics, the context and the branch; and  *)
(* the classification call settles, since withTimeout(.., 5000, "intent")  *)
(* rejects it after 5 s (intent.js:16-38).  getEmbedding (chain.js:34,     *)
(* embedding service: a bare fetch) and callLLMStream (chain.js:136, a     *)
(* bare fetch and a stream read to its end) are awaited without a          *)
(* deadline: they settle only if the back-end answers, so the model does   *)
(* not force EmbedQuestion, EmbedQuestionFail, CallLLM or CallLLMFail.     *)
(***************************************************************************)
LocalRagStep ==
  \/ SearchSlices
  \/ SearchFail
  \/ RetrieveDocs
  \/ BuildContext
  \/ AutoBranch
  \/ \E reply \in {"table", "plain", "error"} : ClassifyIntent(reply)

SpecRagLive == InitRag /\ [][NextRag]_vars /\ WF_vars(LocalRagStep)

\* C23 as claimed: every call of runRag eventually completes with a result
\* or an error, whatever the back-ends do.
C23_AnswerEventuallyCompletes == <>(rpc \in {"done", "error"})

(***************************************************************************)
(* readSSEToText (part_008:72-96, rag_langchain.js:50-72) (SpecSse)        *)
(*                                                                         *)
(* The stream is a sequence of lines, each a data line with a delta        *)
(* content ("a", "b") or the data line of the sentinel ("DONE").  The text *)
(* of a line is cut in three pieces: a head (it starts with "data: " but   *)
(* is no complete payload), a tail (the rest of the payload) and the line  *)
(* feed.  A read buffer is any run of consecutive pieces.                  *)
(***************************************************************************)
LineKinds == {"a", "b", "DONE"}

piecesOf(kind) == <<[k |-> kind, part |-> "head"], [k |-> kind, part |-> "tail"],
                    [k |-> kind, part |-> "nl"]>>

RECURSIVE streamOf(_)
streamOf(lines) ==
  IF lines = <<>> THEN <<>> ELSE piecesOf(Head(lines)) \o streamOf(Tail(lines))

\* part_008:78-91: what one line of a buffer adds to acc.  Only a whole
\* data line parses; the sentinel is skipped (continue), a head alone fails
\* JSON.parse and a tail alone does not start with "data: "
contentOf(line) ==
  IF /\ Len(line) = 2
     /\ line[1].part = "head" /\ line[2].part = "tail"
     /\ line[1].k # "DONE"
  THEN <<line[1].k>>
  ELSE <<>>

\* part_008:76-91: chunk.split(/\r?\n/) and the loop over the lines
RECURSIVE scanBuffer(_, _)
scanBuffer(buf, line) ==
  IF buf = <<>> THEN contentOf(line)
  ELSE IF Head(buf).part = "nl"
       THEN contentOf(line) \o scanBuffer(Tail(buf), <<>>)
       ELSE scanBuffer(Tail(buf), Append(line, Head(buf)))

\* part_008:72-75: the listeners are attached, acc is empty
SseInit0(lines) ==
  sse = [pc |-> "reading", lines |-> lines, rest |-> streamOf(lines),
         acc |-> <<>>]

\* part_008:75-92: a data event with the next n pieces of the stream
SseData(n) ==
  /\ sse.pc = "reading"
  /\ n \in 1..Len(sse.rest)
  /\ sse' = [sse EXCEPT
               !.acc = @ \o scanBuffer(Take(sse.rest, n), <<>>),
               !.rest = SubSeq(@, n + 1, Len(@))]

\* part_008:93: the end event resolves with acc
SseEnd ==
  /\ sse.pc = "reading"
  /\ sse.rest = <<>>
  /\ sse' = [sse EXCEPT !.pc = "ended"]

\* part_008:94: the error event rejects
SseError ==
  /\ sse.pc = "reading"
  /\ sse' = [sse EXCEPT !.pc = "error"]

InitSse ==
  /\ StoreInit0(0)
  /\ lq = <<>> /\ active = 0 /\ ticks = 0 /\ task = <<>>
  /\ upl = "none" /\ inserted = 0
  /\ RagIdle
  /\ ing = NoIngest /\ chk = NoUnit /\ req = NoUnit
  /\ docAssets = NoAssetRows
  /\ \E lines \in SeqsUpTo(LineKinds, MaxLines) : SseInit0(lines)

SseOnly(A) ==
  A /\ UNCHANGED <<storeVars, uploadVars, ragVars, ingestVars, chk, req,
                 docAssets>>

NextSse ==
  \/ \E n \in 1..(3 * MaxLines) : SseOnly(SseData(n))
  \/ SseOnly(SseEnd)
  \/ SseOnly(SseError)

SpecSse == InitSse /\ [][NextSse]_vars

\* the contents of the data lines that precede the first sentinel
RECURSIVE BeforeDone(_)
BeforeDone(lines) ==
  IF lines = <<>> \/ Head(lines) = "DONE" THEN <<>>
  ELSE <<Head(lines)>> \o BeforeDone(Tail(lines))

\* C24 as claimed: when the stream has ended, the text returned is the
\* concatenation, in order, of the contents of the data lines before the
\* sentinel, however the stream was cut into buffers.
C24_StreamTextBeforeDone ==
  sse.pc = "ended" => sse.acc = BeforeDone(sse.lines)

(***************************************************************************)
(* The query routes: handleQuery and handleQueryGet (part_004) (SpecQuery) *)
(*                                                                         *)
(* A question is its length (0: missing or empty), a history its length.   *)
(***************************************************************************)
QuestionLengths == {0, 1, 2, QuestionMax - 1, QuestionMax, QuestionMax + 1,
                    QuestionMax + 2}
HistoryLengths  == {0, 1, 2, HistoryMax - 1, HistoryMax, HistoryMax + 1,
                    HistoryMax + 2}

\* a request has arrived on a route
QueryInit0(route, question, history) ==
  req = [pc |-> "received", route |-> route, question |-> question,
         history |-> history, status |-> 0, ragCalls |-> <<>>]

\* part_004:19-24: the checks of POST /query; 0 when the request passes
queryChecks(question) ==
  IF question = 0 THEN 400
  ELSE IF question > QuestionMax THEN 413
  ELSE 0

\* part_004:60-64: the checks of GET /query/:question
queryGetChecks(question) ==
  IF question = 0 THEN 400 ELSE 0

\* part_004:8-38: POST /query up to the await of runRag
HandleQuery ==
  /\ req.pc = "received"
  /\ req.route = "POST"
  /\ LET status == queryChecks(req.question)
         hist   == Min2(req.history, HistoryMax)
     IN  IF status # 0
         THEN req' = [req EXCEPT !.pc = "sent", !.status = status]
         ELSE req' = [req EXCEPT
                        !.pc = "rag",
                        !.ragCalls = Append(@, [question |-> req.question,
                                                history |-> hist])]

\* query.route.js:16: the path /query/:question needs a non-empty segment;
\* a GET without a question matches no route and the framework answers 404
RouteMiss ==
  /\ req.pc = "received"
  /\ req.route = "GET"
  /\ req.question = 0
  /\ req' = [req EXCEPT !.pc = "sent", !.status = 404]

\* part_004:58-73: GET /query/:question up to the await of runRag
HandleQueryGet ==
  /\ req.pc = "received"
  /\ req.route = "GET"
  /\ req.question > 0
  /\ LET status == queryGetChecks(req.question)
     IN  IF status # 0
         THEN req' = [req EXCEPT !.pc = "sent", !.status = status]
         ELSE req' = [req EXCEPT
                        !.pc = "rag",
                        !.ragCalls = Append(@, [question |-> req.question,
                                                history |-> 0])]

\* part_004:40-44, 75-79: runRag resolves, res.json answers
RunRagResolve ==
  /\ req.pc = "rag"
  /\ req' = [req EXCEPT !.pc = "sent", !.status = 200]

\* part_004:45-50, 80-85: runRag rejects, the catch answers 500
RunRagReject ==
  /\ req.pc = "rag"
  /\ req' = [req EXCEPT !.pc = "sent", !.status = 500]

InitQuery ==
  /\ StoreInit0(0)
  /\ lq = <<>> /\ active = 0 /\ ticks = 0 /\ task = <<>>
  /\ upl = "none" /\ inserted = 0
  /\ RagIdle
  /\ ing = NoIngest /\ chk = NoUnit /\ sse = NoUnit
  /\ docAssets = NoAssetRows
  /\ \/ \E question \in QuestionLengths, history \in HistoryLengths :
           QueryInit0("POST", question, history)
     \/ \E question \in QuestionLengths : QueryInit0("GET", question, 0)

QueryOnly(A) ==
  A /\ UNCHANGED <<storeVars, uploadVars, ragVars, ingestVars, chk, sse,
                 docAssets>>

NextQuery ==
  \/ QueryOnly(HandleQuery)
  \/ QueryOnly(RouteMiss)
  \/ QueryOnly(HandleQueryGet)
  \/ QueryOnly(RunRagResolve)
  \/ QueryOnly(RunRagReject)

SpecQuery == InitQuery /\ [][NextQuery]_vars

\* C25 as claimed: a GET request that has been handled is where a POST
\* request with the same question and an empty history would be: answered
\* 400 or 413 without a call of runRag when the question is missing or too
\* long, and otherwise with one call of runRag on that question and an
\* empty history.
C25_GetSameAsPost ==
  (req.route = "GET" /\ req.pc # "received") =>
     LET status == queryChecks(req.question)
     IN  IF status # 0
         THEN req.status = status /\ req.ragCalls = <<>>
         ELSE /\ req.ragCalls = <<[question |-> req.question, history |-> 0]>>
              /\ req.status \in {0, 200, 500}

(***************************************************************************)
(* The pooled connections of the three inserts (SpecConn):                 *)
(* insertDocumentWithEmbedding (repo.js:56-97, 189-219), insertDocAsset    *)
(* (repo.js:221-247) and insertDocTable (repo.js:249-264)                  *)
(***************************************************************************)
\* the type of the assets inserted: a table asset, which insertDocTable follows
AssetTypes == {"table"}

\* insertDocAsset, entry up to pool.getConnection() (repo.js:221-222)
AssetCall(p, type) ==
  /\ MayStart(p)
  /\ pc' = [pc EXCEPT ![p] = "a_getconn"]
  /\ loc' = [loc EXCEPT ![p] = [Loc0 EXCEPT !.metadata.type = type]]
  /\ nCalls' = [nCalls EXCEPT !.other = @ + 1]
  /\ UNCHANGED <<documents, embeddings, nextId, tx, connHeld, vectorCache,
                 isCacheLoaded, docAssets>>

\* repo.js:222, pool.getConnection() resolves
AssetGetConnection(p) ==
  /\ pc[p] = "a_getconn"
  /\ Cardinality(connHeld) < connectionLimit
  /\ connHeld' = connHeld \cup {p}
  /\ pc' = [pc EXCEPT ![p] = "a_exec"]
  /\ UNCHANGED <<documents, embeddings, nextId, tx, vectorCache, isCacheLoaded,
                 loc, nCalls, docAssets>>

\* repo.js:222, pool.getConnection() rejects: nothing was acquired
AssetGetConnectionFail(p) ==
  /\ pc[p] = "a_getconn"
  /\ loc' = [loc EXCEPT ![p].err = "getconn"]
  /\ pc' = [pc EXCEPT ![p] = "a_failed"]
  /\ UNCHANGED <<documents, embeddings, nextId, tx, connHeld, vectorCache,
                 isCacheLoaded, nCalls, docAssets>>

\* repo.js:223-240 and the finally of 244-246: the row is written, its
\* insertId returned, the connection released
AssetExecute(p) ==
  /\ pc[p] = "a_exec"
  /\ docAssets' = [docAssets EXCEPT !.assets = Append(@, loc[p].metadata.type)]
  /\ loc' = [loc EXCEPT ![p].docId = Len(docAssets.assets) + 1]
  /\ connHeld' = connHeld \ {p}
  /\ pc' = [pc EXCEPT ![p] = "a_done"]
  /\ UNCHANGED <<documents, embeddings, nextId, tx, vectorCache, isCacheLoaded,
                 nCalls>>

\* variant of AssetExecuteFail: the rejected statement leaves the function
\* without passing through a finally
AssetExecuteFailKeepsConn(p) ==
  /\ pc[p] = "a_exec"
  /\ loc' = [loc EXCEPT ![p].err = "execute"]
  /\ pc' = [pc EXCEPT ![p] = "a_failed"]
  /\ UNCHANGED <<documents, embeddings, nextId, tx, connHeld, vectorCache,
                 isCacheLoaded, nCalls, docAssets>>

\* repo.js:241-246: conn.execute rejects; catch logs and rethrows, finally
\* releases
AssetExecuteFail(p) ==
  /\ pc[p] = "a_exec"
  /\ loc' = [loc EXCEPT ![p].err = "execute"]
  /\ connHeld' = connHeld \ {p}
  /\ pc' = [pc EXCEPT ![p] = "a_failed"]
  /\ UNCHANGED <<documents, embeddings, nextId, tx, vectorCache, isCacheLoaded,
                 nCalls, docAssets>>

\* insertDocTable, entry up to pool.getConnection() (repo.js:249-250); the
\* caller passes the id of the asset row written last, 0 if there is none
TableCall(p, asset_id) ==
  /\ MayStart(p)
  /\ pc' = [pc EXCEPT ![p] = "t_getconn"]
  /\ loc' = [loc EXCEPT ![p] = [Loc0 EXCEPT !.docId = asset_id]]
  /\ nCalls' = [nCalls EXCEPT !.other = @ + 1]
  /\ UNCHANGED <<documents, embeddings, nextId, tx, connHeld, vectorCache,
                 isCacheLoaded, docAssets>>

\* repo.js:250, pool.getConnection() resolves
TableGetConnection(p) ==
  /\ pc[p] = "t_getconn"
  /\ Cardinality(connHeld) < connectionLimit
  /\ connHeld' = connHeld \cup {p}
  /\ pc' = [pc EXCEPT ![p] = "t_exec"]
  /\ UNCHANGED <<documents, embeddings, nextId, tx, vectorCache, isCacheLoaded,
                 loc, nCalls, docAssets>>

\* repo.js:250, pool.getConnection() rejects: nothing was acquired
TableGetConnectionFail(p) ==
  /\ pc[p] = "t_getconn"
  /\ loc' = [loc EXCEPT ![p].err = "getconn"]
  /\ pc' = [pc EXCEPT ![p] = "t_failed"]
  /\ UNCHANGED <<documents, embeddings, nextId, tx, connHeld, vectorCache,
                 isCacheLoaded, nCalls, docAssets>>

\* repo.js:251-257 and the finally of 261-263
TableExecute(p) ==
  /\ pc[p] = "t_exec"
  /\ docAssets' = [docAssets EXCEPT !.tables = Append(@, loc[p].docId)]
  /\ connHeld' = connHeld \ {p}
  /\ pc' = [pc EXCEPT ![p] = "t_done"]
  /\ UNCHANGED <<documents, embeddings, nextId, tx, vectorCache, isCacheLoaded,
                 loc, nCalls>>

\* repo.js:258-263: conn.execute rejects; catch logs and rethrows, finally
\* releases
TableExecuteFail(p) ==
  /\ pc[p] = "t_exec"
  /\ loc' = [loc EXCEPT ![p].err = "execute"]
  /\ connHeld' = connHeld \ {p}
  /\ pc' = [pc EXCEPT ![p] = "t_failed"]
  /\ UNCHANGED <<documents, embeddings, nextId, tx, vectorCache, isCacheLoaded,
                 nCalls, docAssets>>

\* a step of insertDocAsset or insertDocTable leaves the other components alone
ConnOnly(A) ==
  A /\ UNCHANGED <<uploadVars, ragVars, ingestVars, chk, sse, req>>

NextConn ==
  \/ \E p \in Procs, c \in StoreContent, m \in StoreMetas, v \in StoreVecs :
       StoreOnly(InsertCall(p, c, m, v))
  \/ \E p \in Procs : StoreOnly(GetConnection(p))
  \/ \E p \in Procs : StoreOnly(GetConnectionFail(p))
  \/ \E p \in Procs : StoreOnly(BeginTransaction(p))
  \/ \E p \in Procs : StoreOnly(InsertDocumentsRow(p))
  \/ \E p \in Procs : StoreOnly(InsertEmbeddingsRow(p))
  \/ \E p \in Procs : StoreOnly(Commit(p))
  \/ \E p \in Procs : StoreOnly(AfterCommit(p))
  \/ \E p \in Procs : StoreOnly(StatementFail(p))
  \/ \E p \in Procs : StoreOnly(Rollback(p))
  \/ \E p \in Procs, t \in AssetTypes : ConnOnly(AssetCall(p, t))
  \/ \E p \in Procs : ConnOnly(AssetGetConnection(p))
  \/ \E p \in Procs : ConnOnly(AssetGetConnectionFail(p))
  \/ \E p \in Procs : ConnOnly(AssetExecute(p))
  \/ \E p \in Procs : ConnOnly(AssetExecuteFail(p))
  \/ \E p \in Procs : ConnOnly(TableCall(p, Len(docAssets.assets)))
  \/ \E p \in Procs : ConnOnly(TableGetConnection(p))
  \/ \E p \in Procs : ConnOnly(TableGetConnectionFail(p))
  \/ \E p \in Procs : ConnOnly(TableExecute(p))
  \/ \E p \in Procs : ConnOnly(TableExecuteFail(p))
  \/ \E p \in Procs : StoreOnly(Return(p))

SpecConn == InitStore /\ [][NextConn]_vars

\* the positions at which a call holds the connection it acquired
HoldingPcs == {"begin", "insdoc", "insemb", "commit", "committed", "rollback",
               "a_exec", "t_exec"}

\* C28: a call of insertDocumentWithEmbedding, insertDocAsset or
\* insertDocTable holds a connection exactly from the moment getConnection
\* resolved until it settles, and gives it back in the step in which it
\* settles, whether it committed, a statement failed or the rollback itself
\* failed; so the pool is never over its limit and once every call has
\* settled no connection is held.
C28_ConnectionsReleased ==
  /\ connHeld = {p \in Procs : pc[p] \in HoldingPcs}
  /\ Cardinality(connHeld) <= connectionLimit
  /\ AllCallsFinished => connHeld = {}

C28_Witness ==
  /\ pc[1] = "ins_failed"
  /\ loc[1].err = "rollback"
  /\ pc[2] \in {"a_failed", "t_failed"}
  /\ loc[2].err = "execute"
  /\ connHeld = {}

====
